---- MODULE Spec2Model ----
(***************************************************************************)
(* Dual-channel long-poll ingestion and command dispatch of Tiendaweb.     *)
(*                                                                         *)
(* Spec          the two poll loops of the dual-channel script             *)
(*               (src/checkout.js, part "script.js"): identity handshake,  *)
(*               fetch, batch processing with its awaits, timers, stop,    *)
(*               pull-to-refresh.                                          *)
(* DispatchSpec  the per-update dispatch of both scripts on one message at *)
(*               a time: processUpdates of the dual-channel script and the *)
(*               loop body of getUpdates of the single-loop src/script.js. *)
(* ProductSpec   the product commands (upsert, delete with renumbering) on *)
(*               a grid of stored products, with failing storage writes.   *)
(* ChatSpec      appending to the chat history and clearing it.            *)
(* GrammarSpec   the dispatch of the dual-channel script on command texts  *)
(*               around the edges of the grammar, as text and as caption.  *)
(* LiveSpec      the two poll loops with a failing ticker storage, under   *)
(*               fairness of timers and of the awaited requests.           *)
(* StartSpec     the two poll loops with further calls of start...Polling  *)
(*               on a channel that is active.                              *)
(* CartSpec      the cart of src/storage.js: buy button, removal, decrease *)
(*               and emptying, currency switch and page reload.            *)
(* CheckoutSpec  the checkout form of src/checkout.js: validation, order   *)
(*               count, the two awaited sends, with a clock on UTC.        *)
(* DateSpec      the checkout form under the clocks of three time zones.   *)
(* TrimSpec      the chat history around its stored maximum of 200.        *)
(* RouletteSpec  the roulette button under offers, clicks and its removal. *)
(***************************************************************************)
EXTENDS Integers, Sequences, FiniteSets, Bags, TLC

\* ------------------------------------------------------------------ bounds
MaxEvents == 3      \* updates reaching the bots plus pull-to-refresh
                    \* requests during one run of Spec or of LiveSpec
MaxDispatch == 2    \* updates handled during one run of DispatchSpec,
                    \* of ProductSpec or of GrammarSpec
MaxProducts == 3    \* products stored when a run of ProductSpec starts
MaxHistory == 2     \* chat entries held during one run of ChatSpec
MaxQuantity == 3    \* units of one product in the cart of CartSpec
MaxOrders == 2      \* submissions passing validation in CheckoutSpec

\* --------------------------------------------------------------- constants
POLL_DELAY == 100           \* scheduleNext...Poll(100)
RETRY_DELAY == 15000        \* scheduleNext...Poll(15000)

Chan == {"primary", "auxiliary"}
MAIN_CHAT_ID == "main"      \* effectiveMainChatId is never empty
NoChat == "none"            \* AUX_CHAT_ID === null
ChatIds == {"main", "aux", "other"}

\* updateInterval holds null, true or a timer id (a positive number)
IV_NULL == 0
IV_TRUE == -1
Truthy(iv) == iv # IV_NULL
IsNumber(iv) == iv > 0

VARIABLES
    auxBotToken,     \* EFFECTIVE_AUX_BOT_TOKEN is set (BOOLEAN)
    auxChatId,       \* AUX_CHAT_ID, NoChat when not set
    updateInterval,  \* primaryUpdateInterval / auxiliaryUpdateInterval
    lastUpdateId,    \* lastPrimaryUpdateId / lastAuxiliaryUpdateId
    botInfo,         \* primaryBotInfo / auxiliaryBotInfo is set
    disconnected,    \* the status indicator carries class "disconnected"
    timers,          \* pending setTimeout(fetch...Updates) per channel
    chains,          \* bag of running fetch...Updates invocations
    meReqs,          \* identity requests in flight, with their continuation
    feed,            \* upstream updates of each bot, update_id = index
    app,             \* chat history, ticker, card, products, ...
    ptrCount,        \* pull-to-refresh requests so far
    stopped,         \* history: stop...Polling has been called
    started,         \* history: start...Polling has run to its fetch
    dispatched,      \* history: times each update_id was dispatched
    idFailed,        \* history: an identity request of the channel failed
    handled          \* history: the message the loop body ran on last

vars == <<auxBotToken, auxChatId, updateInterval, lastUpdateId, botInfo,
          disconnected, timers, chains, meReqs, feed, app, ptrCount,
          stopped, started, dispatched, idFailed, handled>>

\* a guard that looks at the token alone
AuxConfigured_TokenOnly == auxBotToken

\* EFFECTIVE_AUX_BOT_TOKEN && AUX_CHAT_ID
AuxConfigured == auxBotToken /\ auxChatId # NoChat

\* ------------------------------------------------------------ message text
\* A text is the sequence of its pieces cut at every asterisk: the piece
\* "*" is the delimiter, " " is a whitespace-only piece, every other piece is
\* a run of characters without an asterisk.  No text is the empty sequence.
STAR == "*"
BLANK == " "
LBRACE == "{"
RBRACE == "}"
NoText == << >>
None == << >>                \* null / missing storage key / absent field
Some(x) == <<x>>
NoUrl == ""                  \* imageUrl null

StartsWith(t, p) == Len(t) >= Len(p) /\ SubSeq(t, 1, Len(p)) = p
Substring(t, n) == SubSeq(t, n + 1, Len(t))

\* String.prototype.trim of one piece
Trim(piece) == IF piece = BLANK THEN "" ELSE piece

\* trim of a whole text: whitespace pieces at both ends go
RECURSIVE TrimLeft(_)
TrimLeft(t) == IF t # << >> /\ Head(t) = BLANK THEN TrimLeft(Tail(t)) ELSE t
RECURSIVE TrimRight(_)
TrimRight(t) ==
    IF t # << >> /\ t[Len(t)] = BLANK THEN TrimRight(SubSeq(t, 1, Len(t) - 1))
    ELSE t
TrimText(t) == TrimRight(TrimLeft(t))

\* text.split('*'): the strings between the delimiters, "" where two
\* delimiters touch or the text starts or ends with one
RECURSIVE SplitFrom(_, _)
SplitFrom(t, cur) ==
    IF t = << >> THEN <<cur>>
    ELSE IF Head(t) = STAR THEN <<cur>> \o SplitFrom(Tail(t), "")
    ELSE SplitFrom(Tail(t), Head(t))
Split(t) == SplitFrom(t, "")

RECURSIVE NonEmpty(_)
NonEmpty(parts) ==
    IF parts = << >> THEN << >>
    ELSE IF Trim(Head(parts)) = "" THEN NonEmpty(Tail(parts))
    ELSE <<Trim(Head(parts))>> \o NonEmpty(Tail(parts))

\* /^\d+$/ and parseInt(.., 10) on the digit strings of the model
NumVal == [d \in {"0", "1", "2", "3", "4", "14", "23", "24", "25"} |->
             CASE d = "0" -> 0 [] d = "1" -> 1 [] d = "2" -> 2 [] d = "3" -> 3
               [] d = "4" -> 4 [] d = "14" -> 14 [] d = "23" -> 23
               [] d = "24" -> 24 [] d = "25" -> 25]
IsDigits(piece) == piece \in DOMAIN NumVal
\* (n).toString()
ToStr(n) == CHOOSE d \in DOMAIN NumVal : NumVal[d] = n

\* toUpperCase on the keywords of the grammar
ToUpper(piece) ==
    CASE piece = "dulces" -> "DULCES"
      [] piece = "ruleta" -> "RULETA"
      [] OTHER -> piece

\* the price scan /(\d+[,.]?\d*)\s*(CUP|MLC)/gi over the price segment, in
\* hundredths; a later match of a currency overwrites an earlier one
PriceScan(piece) ==
    CASE piece = "10,50 CUP 2 MLC" -> [cup |-> Some(1050), mlc |-> Some(200)]
      [] piece = "5 cup" -> [cup |-> Some(500), mlc |-> None]
      [] piece = "3.20 MLC" -> [cup |-> None, mlc |-> Some(320)]
      [] piece = "1 CUP 2 CUP" -> [cup |-> Some(200), mlc |-> None]
      [] OTHER -> [cup |-> None, mlc |-> None]

\* /^[0-9\s-]+$/ on the remainder of *TARJETA*
IsCardNumber(t) == t \in {<<"9225 1234">>, <<"9225-1234">>}

\* parseProductCommand: None when rejected
parseProductCommand(text) ==
    IF text = NoText \/ ~StartsWith(text, <<STAR, "DULCES", STAR>>) THEN None
    ELSE LET parts == Split(text)
             trimmedParts == NonEmpty(SubSeq(parts, 2, Len(parts) - 1))
         IN IF Len(trimmedParts) < 5 \/ ToUpper(trimmedParts[1]) # "DULCES"
            THEN None
            ELSE IF ~IsDigits(trimmedParts[2]) THEN None
            ELSE LET price == PriceScan(trimmedParts[5])
                 IN IF price.cup = None /\ price.mlc = None THEN None
                    ELSE Some([id |-> trimmedParts[2],
                               name |-> trimmedParts[3],
                               description |-> trimmedParts[4],
                               priceCUP |-> price.cup,
                               priceMLC |-> price.mlc])

\* ------------------------------------------------- application state (app)
\* chatHistory   the in-memory chat history
\* storedChat    localStorage[LOCAL_STORAGE_KEY]
\* ticker        localStorage[TICKER_STORAGE_KEY]; tickerShown: the panel
\* card          localStorage[MLC_CARD_STORAGE_KEY]
\* remoteConfig  localStorage['remoteApiConfig']
\* notification  the notification shown last
\* roulette      the roulette buttons of the document, in document order
\* rouletteDisabled          the roulette button is disabled
\* games         the calls of startRouletteGame so far
\* grid          the product cards of .product-grid, in document order
\* store         localStorage['product_data_' + id]
\* failing       the ids whose localStorage.setItem('product_data_' + id, ..)
\*               throws (storage quota), and TICKER_KEY, CHAT_KEY, ORDER_KEY
\*               when the setItem of the ticker text, of the chat history,
\*               of an order count throws
\* cartItems, cartCurrency   the cart and the currency of its prices
\* cartStored    localStorage[CART_STORAGE_KEY]
\* currentCurrency           the currency selected in the page
\* currencyStored            localStorage[CURRENCY_STORAGE_KEY]
\* checkoutOpen  the checkout modal carries class "modal-visible"
\* submitDisabled, errorShown   the submit button and the error message
\* fechaMin      the min attribute of the date input, as a day number
\* mlcShown      the MLC payment modal is shown
\* orderCount    localStorage[ORDER_COUNT_STORAGE_PREFIX + movil], for the
\*               mobile numbers that have a stored count
\* submits       the running handleCheckoutSubmit invocations
\* lastOrder     history: the last submission and its outcome
\* now, tz       the clock in minutes of UTC, and the minutes local time is
\*               ahead of UTC
NoCurrency == "null"         \* cartCurrency === null

AppInit ==
    [chatHistory |-> << >>, storedChat |-> None, ticker |-> None,
     tickerShown |-> None, card |-> None, remoteConfig |-> None,
     notification |-> None, roulette |-> None, grid |-> << >>,
     store |-> [d \in DOMAIN NumVal |-> None], failing |-> {},
     cartItems |-> << >>, cartCurrency |-> NoCurrency, cartStored |-> None,
     currentCurrency |-> "CUP", currencyStored |-> None,
     checkoutOpen |-> FALSE, submitDisabled |-> FALSE, errorShown |-> FALSE,
     fechaMin |-> 0, mlcShown |-> FALSE, orderCount |-> << >>,
     submits |-> << >>, lastOrder |-> << >>, now |-> 0, tz |-> 0,
     rouletteDisabled |-> FALSE, games |-> 0]

maxStoredMessages == 200

TICKER_KEY == "ticker"

CHAT_KEY == "chat"          \* in failing: setItem of the chat history throws

saveChatHistory(a, history) ==
    IF CHAT_KEY \in a.failing THEN a
    ELSE [a EXCEPT !.storedChat =
            Some(IF Len(history) > maxStoredMessages
                 THEN SubSeq(history, Len(history) - maxStoredMessages + 1,
                             Len(history))
                 ELSE history)]

addMessageToChat(a, text, type, sender, timestamp, imageUrl) ==
    IF type # "system" /\ type # "error"
    THEN LET entry == [text |-> text, type |-> type, sender |-> sender,
                       timestamp |-> timestamp, imageUrl |-> imageUrl]
             isDuplicate == a.chatHistory # << >>
                            /\ a.chatHistory[Len(a.chatHistory)] = entry
         IN IF ~isDuplicate
            THEN saveChatHistory([a EXCEPT !.chatHistory = Append(@, entry)],
                                 Append(a.chatHistory, entry))
            ELSE a
    ELSE a

clearChat(a) == [a EXCEPT !.storedChat = None, !.chatHistory = << >>]

updateTickerDisplay(a, text) ==
    [a EXCEPT !.tickerShown = IF TrimText(text) # << >> THEN Some(text)
                              ELSE None]

showNotification(a, message) ==
    IF TrimText(message) = << >> THEN a
    ELSE [a EXCEPT !.notification = Some(TrimText(message))]

\* the first .roulette-button of the document is removed and the new
\* button, enabled, is appended
showRouletteButton(a, attemptsStr, winHour, code) ==
    [a EXCEPT !.roulette = Append(IF @ = << >> THEN @ ELSE Tail(@),
                                  [attempts |-> attemptsStr,
                                   winHour |-> winHour, code |-> code]),
              !.rouletteDisabled = FALSE]

\* the click listener of the roulette button
rouletteClick(a) ==
    LET currentAttempts == NumVal[a.roulette[1].attempts]
    IN IF currentAttempts > 0
       THEN [a EXCEPT !.roulette[1].attempts = ToStr(currentAttempts - 1),
                      !.games = @ + 1,
                      !.rouletteDisabled = currentAttempts - 1 <= 0]
       ELSE [a EXCEPT !.roulette = Tail(@)]

\* ---------------------------------------------------------------- products
CardIndex(grid, productId) ==
    IF \E i \in 1..Len(grid) : grid[i].id = productId
    THEN CHOOSE i \in 1..Len(grid) :
            grid[i].id = productId
            /\ \A j \in 1..(i - 1) : grid[j].id # productId
    ELSE 0

InsertAt(seq, i, x) == SubSeq(seq, 1, i - 1) \o <<x>> \o SubSeq(seq, i, Len(seq))
RemoveAt(seq, i) == SubSeq(seq, 1, i - 1) \o SubSeq(seq, i + 1, Len(seq))

updateProductCard(a, productId, data) ==
    LET grid == a.grid
        i == CardIndex(grid, productId)
        card == [id |-> productId, name |-> data.name,
                 description |-> data.description,
                 priceCUP |-> data.priceCUP, priceMLC |-> data.priceMLC,
                 imageUrl |-> data.imageUrl]
        larger == {j \in 1..Len(grid) : NumVal[productId] < NumVal[grid[j].id]}
    IN IF i = 0
       THEN IF larger # {}
            THEN [a EXCEPT !.grid =
                     InsertAt(grid, CHOOSE j \in larger :
                                       \A k \in larger : j <= k, card)]
            ELSE [a EXCEPT !.grid = Append(grid, card)]
       ELSE [a EXCEPT !.grid[i] = card]

\* the exception of a failing setItem is caught and logged
\* a torn write: the record keeps the name it had
saveProductData_KeepName(a, productId, data) ==
    IF a.store[productId] = None
    THEN [a EXCEPT !.store[productId] = Some(data)]
    ELSE [a EXCEPT !.store[productId] =
             Some([data EXCEPT !.name = a.store[productId][1].name])]

saveProductData(a, productId, data) ==
    IF productId \in a.failing THEN a
    ELSE [a EXCEPT !.store[productId] = Some(data)]

\* a load that finds no record
loadProductData_Missing(a, productId) == None

loadProductData(a, productId) == a.store[productId]

\* a renumbering that leaves every card and record where it is
renumberProducts_Skip(a) == a

\* renumberProducts: the card at index i gets id i; its record moves with
\* it.  The old keys that are not written anew are removed first, then each
\* new key is written, a failing write being caught and logged.
renumberProducts(a) ==
    LET grid == a.grid
        moved == {i \in 1..Len(grid) : grid[i].id # ToStr(i)}
        oldData(i) ==
            IF loadProductData(a, grid[i].id) # None
            THEN loadProductData(a, grid[i].id)[1]
            ELSE [name |-> grid[i].name, description |-> grid[i].description,
                  priceCUP |-> None, priceMLC |-> None,
                  imageUrl |-> grid[i].imageUrl]
        keysToRemove == {grid[i].id : i \in moved}
        itemsToSave == {ToStr(i) : i \in moved}
    IN IF grid = << >> \/ moved = {} THEN a
       ELSE [a EXCEPT
               !.grid = [i \in 1..Len(grid) |->
                            [grid[i] EXCEPT !.id = ToStr(i)]],
               !.store = [d \in DOMAIN NumVal |->
                            IF d \in itemsToSave
                            THEN IF d \in a.failing THEN a.store[d]
                                 ELSE Some(oldData(NumVal[d]))
                            ELSE IF d \in keysToRemove THEN None
                            ELSE a.store[d]]]

deleteProduct(a, productIdToDelete) ==
    LET i == CardIndex(a.grid, productIdToDelete)
    IN IF i # 0
       THEN renumberProducts([a EXCEPT !.grid = RemoveAt(@, i),
                                       !.store[productIdToDelete] = None])
       ELSE IF a.store[productIdToDelete] # None
            THEN renumberProducts([a EXCEPT !.store[productIdToDelete] = None])
            ELSE a

\* ---------------------------------------------------------------- commands
\* A message: chat (message.chat.id), text, caption, photo (message.photo is
\* a non-empty array), sender (senderName), date.
\* script is "dual" for the dual-channel script and "single" for
\* src/script.js, whose one loop polls the primary bot.

CMD_CLEAR == <<STAR, "ELIMINAR.M", STAR>>
CMD_TICKER == <<STAR, "PANEL SUPERIOR", STAR>>
CMD_NOTIFY == <<STAR, "NOTIFICACION", STAR>>
CMD_ROULETTE == <<STAR, "RULETA", STAR>>
CMD_CARD == <<STAR, "TARJETA", STAR>>
CMD_CARD_CLEAR == <<STAR, "TARJETA.E", STAR>>
CMD_DELETE == <<STAR, "ELIMINAR.PRODUCTO", STAR>>

\* the chat filter at the head of the loop body
PassesFilter(script, botType, chat) ==
    IF script = "dual"
    THEN /\ ~(botType = "primary" /\ chat # MAIN_CHAT_ID)
         /\ ~(botType = "auxiliary" /\ chat # auxChatId)
    ELSE chat = MAIN_CHAT_ID \/ (auxChatId # NoChat /\ chat = auxChatId)

\* the branch of the if-chain a message takes
CommandKind(m) ==
    LET text == m.text
    IN CASE text = CMD_CLEAR -> "clear"
         [] StartsWith(text, CMD_TICKER) -> "ticker"
         [] StartsWith(text, CMD_NOTIFY) -> "notify"
         [] StartsWith(text, CMD_ROULETTE) -> "roulette"
         [] StartsWith(text, CMD_CARD) -> "card"
         [] text = CMD_CARD_CLEAR -> "cardClear"
         [] StartsWith(text, CMD_DELETE) -> "delete"
         [] OTHER -> "rest"

\* caption || text
commandTextSource(m) == IF m.caption # NoText THEN m.caption ELSE m.text

\* ---------------------------------------------------------------- messages
Msg(chat, text, caption, photo) ==
    [chat |-> chat, text |-> text, caption |-> caption, photo |-> photo,
     sender |-> "Ana", date |-> 1]

\* the messages the upstream feeds of the poll loops carry, sent from the
\* chat bound to the channel: updates with an odd id are processed with an
\* await of getFile (a product command on a photo, for the same product id
\* on both channels), the others without one (the ticker command on the
\* primary channel, the deletion of that product on the auxiliary one)
FeedMsgs(c, id) ==
    IF c = "primary"
    THEN IF id % 2 = 1
         THEN {Msg(MAIN_CHAT_ID, NoText,
                   <<STAR, "DULCES", STAR, "1", STAR, "Mani", STAR, "Rico",
                     STAR, "5 cup", STAR>>, TRUE)}
         ELSE {Msg(MAIN_CHAT_ID, <<STAR, "PANEL SUPERIOR", STAR, "oferta">>,
                   NoText, FALSE)}
    ELSE IF id % 2 = 1
         THEN {Msg("aux", NoText,
                   <<STAR, "DULCES", STAR, "1", STAR, "Coco", STAR, "Dulce",
                     STAR, "10,50 CUP 2 MLC", STAR>>, TRUE)}
         ELSE {Msg("aux", <<STAR, "ELIMINAR.PRODUCTO", STAR, "1", STAR>>,
                   NoText, FALSE)}

DispatchTexts ==
    {<<"hola">>,
     CMD_CLEAR,
     <<STAR, "PANEL SUPERIOR", STAR, "oferta">>,
     <<STAR, "NOTIFICACION", STAR, "aviso">>,
     <<STAR, "RULETA", STAR, "3", STAR, "14", STAR, "WIN123", STAR>>,
     <<STAR, "TARJETA", STAR, "9225 1234">>,
     CMD_CARD_CLEAR,
     <<STAR, "ELIMINAR.PRODUCTO", STAR, "1", STAR>>,
     <<STAR, "DULCES", STAR, "1", STAR, "Mani", STAR, "Rico", STAR, "5 cup",
       STAR>>,
     <<STAR, "DULCES", STAR, "2", STAR, "Coco", STAR, "Dulce", STAR,
       "10,50 CUP 2 MLC", STAR>>,
     <<STAR, "DULCES", STAR, "1", STAR, "Mani", STAR>>,
     <<STAR, "DESCONOCIDO", STAR, "hola">>,
     <<LBRACE, "token", "chatId", RBRACE>>}

\* text messages, and photos that carry the text as their caption
DispatchMsgs ==
    {Msg(chat, t, NoText, FALSE) : chat \in ChatIds, t \in DispatchTexts}
    \cup {Msg(chat, NoText, t, TRUE) :
            chat \in ChatIds,
            t \in {<<"hola">>,
                   <<STAR, "DULCES", STAR, "1", STAR, "Mani", STAR, "Rico",
                     STAR, "5 cup", STAR>>}}

\* the product commands sent to the primary bot from the primary chat:
\* upserts of ids 1, 2 and 3 as text, of id 1 and of id 2 on a photo, and
\* deletions of ids 1, 2 and 3
ProductTexts ==
    {<<STAR, "DULCES", STAR, "1", STAR, "Mani", STAR, "Rico", STAR, "5 cup",
       STAR>>,
     <<STAR, "DULCES", STAR, "2", STAR, "Coco", STAR, "Dulce", STAR,
       "10,50 CUP 2 MLC", STAR>>,
     <<STAR, "DULCES", STAR, "3", STAR, "Nuez", STAR, "Seco", STAR,
       "3.20 MLC", STAR>>,
     <<STAR, "ELIMINAR.PRODUCTO", STAR, "1", STAR>>,
     <<STAR, "ELIMINAR.PRODUCTO", STAR, "2", STAR>>,
     <<STAR, "ELIMINAR.PRODUCTO", STAR, "3", STAR>>}

ProductMsgs ==
    {Msg(MAIN_CHAT_ID, t, NoText, FALSE) : t \in ProductTexts}
    \cup {Msg(MAIN_CHAT_ID, NoText, t, TRUE) :
            t \in {<<STAR, "DULCES", STAR, "1", STAR, "Mani", STAR, "Rico",
                     STAR, "5 cup", STAR>>,
                   <<STAR, "DULCES", STAR, "2", STAR, "Coco", STAR, "Dulce",
                     STAR, "10,50 CUP 2 MLC", STAR>>}}

\* command texts around the edges of the grammar, sent to the primary bot
\* from the primary chat as text and as the caption of a photo
RouletteTexts ==
    {<<STAR, "RULETA", STAR, "3", STAR, "14", STAR, "WIN123", STAR>>,
     <<STAR, "RULETA", STAR, "0", STAR, "23", STAR, "WIN123">>,
     <<STAR, "RULETA", STAR, "3", STAR, "24", STAR, "WIN123", STAR>>,
     <<STAR, "RULETA", STAR, "3", STAR, "25", STAR, "WIN123", STAR>>,
     <<STAR, "RULETA", STAR, "3", STAR, "14", STAR>>,
     <<STAR, "RULETA", STAR, "3", STAR, "14", STAR, "WIN123", STAR, "X",
       STAR>>,
     <<STAR, "RULETA", STAR, "tres", STAR, "14", STAR, "WIN123", STAR>>,
     <<STAR, "RULETA", STAR, "3", STAR, "pm", STAR, "WIN123", STAR>>}

\* product commands: one price, both currencies with a decimal comma, a
\* decimal point, one currency twice, a price segment without a currency, no
\* closing asterisk, id 0, and an id that is not a number
DulcesTexts ==
    {<<STAR, "DULCES", STAR, "1", STAR, "Mani", STAR, "Rico", STAR, "5 cup",
       STAR>>,
     <<STAR, "DULCES", STAR, "2", STAR, "Coco", STAR, "Dulce", STAR,
       "10,50 CUP 2 MLC", STAR>>,
     <<STAR, "DULCES", STAR, "3", STAR, "Nuez", STAR, "Seco", STAR,
       "3.20 MLC", STAR>>,
     <<STAR, "DULCES", STAR, "1", STAR, "Mani", STAR, "Rico", STAR,
       "1 CUP 2 CUP", STAR>>,
     <<STAR, "DULCES", STAR, "1", STAR, "Mani", STAR, "Rico", STAR, "gratis",
       STAR>>,
     <<STAR, "DULCES", STAR, "1", STAR, "Mani", STAR, "Rico", STAR, "5 cup">>,
     <<STAR, "DULCES", STAR, "0", STAR, "Cero", STAR, "Nada", STAR, "5 cup",
       STAR>>,
     <<STAR, "DULCES", STAR, "uno", STAR, "Mani", STAR, "Rico", STAR, "5 cup",
       STAR>>}

GrammarTexts == RouletteTexts \cup DulcesTexts

GrammarMsgs ==
    {Msg(MAIN_CHAT_ID, t, NoText, FALSE) : t \in GrammarTexts}
    \cup {Msg(MAIN_CHAT_ID, NoText, t, TRUE) : t \in GrammarTexts}

\* the *RULETA* texts of RouletteSpec: those of the grammar, and offers of
\* one and of two attempts
OfferTexts ==
    RouletteTexts
    \cup {<<STAR, "RULETA", STAR, "1", STAR, "0", STAR, "UNO", STAR>>,
          <<STAR, "RULETA", STAR, "2", STAR, "23", STAR, "DOS", STAR>>}

RouletteMsgs == {Msg(MAIN_CHAT_ID, t, NoText, FALSE) : t \in OfferTexts}

\* every message of the model, and parseProductCommand(caption || text)
\* of each, computed once
KnownMsgs ==
    DispatchMsgs \cup ProductMsgs \cup GrammarMsgs \cup RouletteMsgs
    \cup UNION {FeedMsgs(c, id) : c \in Chan, id \in 1..MaxEvents}

productUpdateDataOf ==
    [m \in KnownMsgs |-> parseProductCommand(commandTextSource(m))]

\* --------------------------------------------------------------- dispatch
\* a chat branch that does not look at the bot the message came through
ChatBranch_AnyBot(script, botType, m) == m.chat = MAIN_CHAT_ID

\* the chat-message branch is entered
ChatBranch(script, botType, m) ==
    IF script = "dual" THEN botType = "primary" /\ m.chat = MAIN_CHAT_ID
    ELSE m.chat = MAIN_CHAT_ID

\* processing the message awaits getFile
NeedsFile(script, botType, m) ==
    /\ CommandKind(m) = "rest"
    /\ m.photo
    /\ \/ productUpdateDataOf[m] # None
       \/ ChatBranch(script, botType, m)

\* file base + file_path of the token the file was asked with
FileUrl(script, botType) ==
    IF script = "dual" /\ botType = "auxiliary" /\ auxBotToken
    THEN "file/aux" ELSE "file/primary"

\* a roulette command that does not look at the range of the hour
ApplyRoulette_AnyHour(a, text) ==
    LET trimmedParts == NonEmpty(Split(text))
    IN IF /\ Len(trimmedParts) = 4
          /\ IsDigits(trimmedParts[2]) /\ IsDigits(trimmedParts[3])
       THEN showRouletteButton(a, trimmedParts[2], NumVal[trimmedParts[3]],
                               trimmedParts[4])
       ELSE a

ApplyRoulette(a, text) ==
    LET trimmedParts == NonEmpty(Split(text))
    IN IF /\ Len(trimmedParts) = 4
          /\ ToUpper(trimmedParts[1]) = "RULETA"
          /\ IsDigits(trimmedParts[2]) /\ IsDigits(trimmedParts[3])
       THEN LET winHour == NumVal[trimmedParts[3]]
            IN IF winHour >= 0 /\ winHour <= 23
               THEN showRouletteButton(a, trimmedParts[2], winHour,
                                       trimmedParts[4])
               ELSE a
       ELSE a

ApplyCard(a, text) ==
    LET potentialCardNumber == TrimText(Substring(text, Len(CMD_CARD)))
    IN IF potentialCardNumber # << >> /\ IsCardNumber(potentialCardNumber)
       THEN [a EXCEPT !.card = Some(potentialCardNumber)]
       ELSE a

\* script.js names botType in both branches of the delete command, where no
\* such variable is declared: the template literal throws a ReferenceError
\* before deleteProduct is reached
ApplyDelete(script, a, text) ==
    LET parts == NonEmpty(Split(text))
    IN IF script = "single" THEN [app |-> a, threw |-> TRUE, logs |-> 0]
       ELSE IF /\ Len(parts) = 2 /\ ToUpper(parts[1]) = "ELIMINAR.PRODUCTO"
               /\ IsDigits(parts[2])
       THEN [app |-> deleteProduct(a, parts[2]), threw |-> FALSE, logs |-> 1]
       ELSE [app |-> a, threw |-> FALSE, logs |-> 0]

ApplyProduct(script, a, botType, m, data, fileOk) ==
    LET productImageUrl == IF m.photo /\ fileOk THEN FileUrl(script, botType)
                           ELSE NoUrl
        existingData == loadProductData(a, data.id)
        existingImageUrl == IF productImageUrl = NoUrl /\ existingData # None
                            THEN existingData[1].imageUrl ELSE NoUrl
        finalProductData ==
            [name |-> data.name, description |-> data.description,
             priceCUP |-> data.priceCUP, priceMLC |-> data.priceMLC,
             imageUrl |-> IF productImageUrl # NoUrl THEN productImageUrl
                          ELSE existingImageUrl]
    IN saveProductData(updateProductCard(a, data.id, finalProductData),
                       data.id, finalProductData)

ApplyChat(a, m, fileOk) ==
    IF m.photo
    THEN IF fileOk
         THEN addMessageToChat(a, m.caption, "received", m.sender, m.date,
                               "file/primary")
         ELSE IF m.caption # NoText
              THEN addMessageToChat(a, m.caption, "received", m.sender,
                                    m.date, NoUrl)
              ELSE a
    ELSE IF m.text # NoText
         THEN addMessageToChat(a, m.text, "received", m.sender, m.date, NoUrl)
         ELSE a

\* JSON.parse(text) and the test of the required keys: a JSON object is
\* written as LBRACE, the keys that carry a non-empty value, RBRACE; any
\* other text starting with LBRACE makes JSON.parse throw.  The result is
\* the remoteConfig object, whose auxiliary fields default to "".
RemoteConfigOf(text) ==
    LET t == TrimText(text)
        keys == {t[i] : i \in 2..(Len(t) - 1)}
        val(key) == IF key \in keys THEN "v:" \o key ELSE ""
    IN IF /\ Len(t) >= 2 /\ t[1] = LBRACE /\ t[Len(t)] = RBRACE
          /\ "token" \in keys /\ "chatId" \in keys
       THEN Some([token |-> val("token"), chatId |-> val("chatId"),
                  auxBotToken |-> val("auxBotToken"),
                  auxChatId |-> val("auxChatId")])
       ELSE None

\* the loop body has a variable botType in scope: it is the parameter of
\* processUpdates, and src/script.js declares none
BotTypeInScope(script) == script = "dual"

\* the remote configuration block of src/script.js; the dual-channel
\* processUpdates has none.  The log line that precedes the setItem names
\* botType inside the try: the ReferenceError is caught by the catch of the
\* block and the message goes on as a regular message.
ApplyRemoteConfig(script, a, text) ==
    LET notDone == [done |-> FALSE, app |-> a]
        remoteConfig == RemoteConfigOf(text)
    IN IF script = "single" /\ StartsWith(TrimText(text), <<LBRACE>>)
          /\ remoteConfig # None
       THEN IF BotTypeInScope(script)
            THEN [done |-> TRUE,
                  app |-> showNotification(
                              [a EXCEPT !.remoteConfig = remoteConfig],
                              <<"Nueva configuracion remota recibida">>)]
            ELSE notDone
       ELSE notDone

\* the roulette command shows the button (and logs it as 'system')
RouletteShown(text) ==
    LET trimmedParts == NonEmpty(Split(text))
    IN /\ Len(trimmedParts) = 4
       /\ ToUpper(trimmedParts[1]) = "RULETA"
       /\ IsDigits(trimmedParts[2]) /\ IsDigits(trimmedParts[3])
       /\ NumVal[trimmedParts[3]] >= 0 /\ NumVal[trimmedParts[3]] <= 23

\* the card command stores the number (and logs it as 'system')
CardStored(text) ==
    LET potentialCardNumber == TrimText(Substring(text, Len(CMD_CARD)))
    IN potentialCardNumber # << >> /\ IsCardNumber(potentialCardNumber)

\* One pass of the loop body for a message that passed the chat filter;
\* fileOk is the outcome of getFile where the body awaits it.  logs counts
\* the calls of logCallback(.., 'system') of the pass, the one inside
\* clearChat included.
ProcessMessage(script, a, botType, m, fileOk) ==
    LET text == m.text
        kind == CommandKind(m)
        ok(b, n) == [app |-> b, threw |-> FALSE, logs |-> n]
        productUpdateData == productUpdateDataOf[m]
    IN CASE kind = "clear" -> ok(clearChat(a), 2)
         [] kind = "ticker" ->
              LET tickerText == TrimText(Substring(text, Len(CMD_TICKER)))
              IN IF TICKER_KEY \in a.failing
                 THEN [app |-> a, threw |-> TRUE, logs |-> 0]
                 ELSE ok(updateTickerDisplay(
                             [a EXCEPT !.ticker = Some(tickerText)],
                             tickerText), 1)
         [] kind = "notify" ->
              LET notificationText == TrimText(Substring(text, Len(CMD_NOTIFY)))
              IN ok(showNotification(a, notificationText),
                    IF notificationText # << >> THEN 1 ELSE 0)
         [] kind = "roulette" ->
              ok(ApplyRoulette(a, text), IF RouletteShown(text) THEN 1 ELSE 0)
         [] kind = "card" ->
              ok(ApplyCard(a, text), IF CardStored(text) THEN 1 ELSE 0)
         [] kind = "cardClear" -> ok([a EXCEPT !.card = None], 1)
         [] kind = "delete" -> ApplyDelete(script, a, text)
         [] OTHER ->
              IF ApplyRemoteConfig(script, a, text).done
              THEN ok(ApplyRemoteConfig(script, a, text).app, 1)
              ELSE IF productUpdateData # None
              THEN ok(ApplyProduct(script, a, botType, m,
                                   productUpdateData[1], fileOk), 1)
              ELSE IF ChatBranch(script, botType, m)
              THEN ok(ApplyChat(a, m, fileOk), 0)
              ELSE ok(a, 0)

\* ------------------------------------------------------------- poll loops
\* The handlers below run on a snapshot s of the mutable state and return
\* the state they leave; one action is one task of the event loop, from the
\* event that starts it to the next await.
Cur ==
    [interval |-> updateInterval, last |-> lastUpdateId, botInfo |-> botInfo,
     disconnected |-> disconnected, timers |-> timers, chains |-> chains,
     meReqs |-> meReqs, app |-> app, started |-> started,
     dispatched |-> dispatched, idFailed |-> idFailed]

Commit(s) ==
    /\ updateInterval' = s.interval
    /\ lastUpdateId' = s.last
    /\ botInfo' = s.botInfo
    /\ disconnected' = s.disconnected
    /\ timers' = s.timers
    /\ chains' = s.chains
    /\ meReqs' = s.meReqs
    /\ app' = s.app
    /\ started' = s.started
    /\ dispatched' = s.dispatched
    /\ idFailed' = s.idFailed

\* a fetch...Updates invocation: chan, ptr (ptrRefreshAction awaits it),
\* phase ("fetch": getUpdates outstanding, "me": getMe outstanding, "file":
\* getFile outstanding for the head of batch), offset (the offset asked),
\* batch (update ids still to process)
Chain(c, ptr, offset) ==
    [chan |-> c, ptr |-> ptr, phase |-> "fetch", offset |-> offset,
     batch |-> << >>]

ChainsOf(cs, c) == {k \in BagToSet(cs) : k.chan = c}
NumChains(cs, c) ==
    LET ks == ChainsOf(cs, c)
    IN BagCardinality([k \in ks |-> cs[k]])

\* a clearTimeout that cancels nothing
clearTimeout_Keep(ts, iv) == ts

\* clearTimeout(updateInterval) when it holds a number
clearTimeout(ts, iv) == IF IsNumber(iv) THEN {t \in ts : t.id # iv} ELSE ts

\* the id setTimeout returns: a number no pending timer has.  The one holder
\* of an id is updateInterval, which is overwritten with the new id at once,
\* so the id of a timer that has fired or was cleared is given out again.
NewTimerId(ts) ==
    CHOOSE n \in 1..(Cardinality(ts) + 1) :
        /\ \A t \in ts : t.id # n
        /\ \A m \in 1..(n - 1) : \E t \in ts : t.id = m

\* a scheduling that keeps one timer handle for both loops: arming the timer
\* of channel c clears what is pending for the other channel
scheduleNextPoll_Shared(s, c, delay, after) ==
    IF Truthy(s.interval[c])
    THEN LET ts == clearTimeout(s.timers[c], s.interval[c])
             id == NewTimerId(ts)
         IN [s EXCEPT !.timers =
                 [o \in Chan |->
                     IF o = c
                     THEN ts \cup {[id |-> id, delay |-> delay,
                                    after |-> after]}
                     ELSE {}],
                      !.interval[c] = id]
    ELSE s

\* scheduleNextPrimaryPoll / scheduleNextAuxiliaryPoll; after is the outcome
\* of the fetch that schedules
scheduleNextPoll(s, c, delay, after) ==
    IF Truthy(s.interval[c])
    THEN LET ts == clearTimeout(s.timers[c], s.interval[c])
             id == NewTimerId(ts)
         IN [s EXCEPT !.timers[c] = ts \cup {[id |-> id, delay |-> delay,
                                              after |-> after]},
                      !.interval[c] = id]
    ELSE s

\* stopPrimaryPolling / stopAuxiliaryPolling
stopPolling(s, c) ==
    IF Truthy(s.interval[c])
    THEN [s EXCEPT !.timers[c] = clearTimeout(@, s.interval[c]),
                   !.interval[c] = IV_NULL]
    ELSE s

\* fetchPrimaryUpdates / fetchAuxiliaryUpdates up to the getUpdates request
fetchUpdates(s, c, ptr) ==
    IF \/ ~Truthy(s.interval[c])
       \/ (c = "auxiliary" /\ ~AuxConfigured)
    THEN s
    ELSE [s EXCEPT !.chains = @ (+) SetToBag({Chain(c, ptr, s.last[c] + 1)})]

\* a start that does not look whether the channel is active already
startPolling_Restart(s, c) ==
    IF c = "auxiliary" /\ ~AuxConfigured THEN s
    ELSE IF ~s.botInfo[c]
    THEN [s EXCEPT !.meReqs = @ \cup {[chan |-> c, cont |-> "retry"]}]
    ELSE LET s1 == stopPolling(s, c)
             s2 == [s1 EXCEPT !.last[c] = 0, !.interval[c] = IV_TRUE,
                              !.started[c] = TRUE]
             s3 == fetchUpdates(s2, c, FALSE)
         IN IF c = "primary" THEN [s3 EXCEPT !.disconnected = FALSE] ELSE s3

\* startPrimaryPolling / startAuxiliaryPolling
startPolling(s, c) ==
    IF c = "auxiliary" /\ ~AuxConfigured THEN s
    ELSE IF ~s.botInfo[c]
    THEN [s EXCEPT !.meReqs = @ \cup {[chan |-> c, cont |-> "retry"]}]
    ELSE IF s.interval[c] # IV_NULL THEN s
    ELSE LET s1 == stopPolling(s, c)
             s2 == [s1 EXCEPT !.last[c] = 0, !.interval[c] = IV_TRUE,
                              !.started[c] = TRUE]
             s3 == fetchUpdates(s2, c, FALSE)
         IN IF c = "primary" THEN [s3 EXCEPT !.disconnected = FALSE] ELSE s3

\* a refresh that does not look at the identity of the bot
PtrAllowed_NoIdentity(s, c) == c = "primary" \/ AuxConfigured

\* the condition under which ptrRefreshAction refreshes a channel
PtrAllowed(s, c) ==
    IF c = "primary" THEN s.botInfo[c]
    ELSE s.botInfo[c] /\ AuxConfigured

\* one half of ptrRefreshAction, up to its await
ptrRefresh(s, c) ==
    LET s1 == [s EXCEPT !.timers[c] = clearTimeout(@, s.interval[c]),
                        !.interval[c] = IV_TRUE]
    IN fetchUpdates(s1, c, c = "primary")

\* the auxiliary half, run when the primary half is over
ptrAuxiliary(s) ==
    IF PtrAllowed(s, "auxiliary") THEN ptrRefresh(s, "auxiliary") ELSE s

\* a finally block that arms no timer
finallyBlock_None(s, c, after) == s

\* the finally block of fetch...Updates
finallyBlock(s, c, after) ==
    IF Truthy(s.interval[c]) THEN scheduleNextPoll(s, c, POLL_DELAY, after)
    ELSE s

\* the invocation k returns; ptrRefreshAction resumes if it awaited k
returned(s, k) == IF k.ptr THEN ptrAuxiliary(s) ELSE s

\* the catch block, or the null branch, then finally
failed(s, k) ==
    returned(finallyBlock(scheduleNextPoll(s, k.chan, RETRY_DELAY, "fail"),
                          k.chan, "fail"), k)

Bump(n) == IF n < 2 THEN n + 1 ELSE n

\* the mutation of one update's message, counted in dispatched
dispatchUpdate(s, c, id, fileOk) ==
    [s EXCEPT !.app = ProcessMessage("dual", s.app, c, feed[c][id], fileOk).app,
              !.dispatched[c][id] = Bump(@)]

\* the loop body throws on update id of channel c (the unguarded setItem of
\* the ticker command)
Throws(a, c, id) ==
    /\ PassesFilter("dual", c, feed[c][id].chat)
    /\ ProcessMessage("dual", a, c, feed[c][id], FALSE).threw

\* processUpdates from the head of batch to its first getFile, to the
\* update whose processing throws, or to its end
RECURSIVE processUpdates(_, _, _)
processUpdates(s, c, batch) ==
    IF batch = << >> THEN [s |-> s, rest |-> << >>, threw |-> FALSE]
    ELSE LET id == Head(batch)
             m == feed[c][id]
             s1 == [s EXCEPT !.last[c] = id]
         IN IF ~PassesFilter("dual", c, m.chat)
            THEN processUpdates(s1, c, Tail(batch))
            ELSE IF NeedsFile("dual", c, m)
            THEN [s |-> s1, rest |-> batch, threw |-> FALSE]
            ELSE IF Throws(s1.app, c, id)
            THEN [s |-> s1, rest |-> << >>, threw |-> TRUE]
            ELSE processUpdates(dispatchUpdate(s1, c, id, FALSE), c,
                                Tail(batch))

\* after processUpdates has run as far as it can
proceed(s, k, res) ==
    IF res.threw THEN failed(res.s, k)
    ELSE IF res.rest = << >>
    THEN returned(finallyBlock(res.s, k.chan, "ok"), k)
    ELSE [res.s EXCEPT !.chains =
             @ (+) SetToBag({[k EXCEPT !.phase = "file", !.batch = res.rest]})]

\* ----------------------------------------------------------------- actions
Outcomes == {"throw", "null", "ok"}

NoHandled ==
    [script |-> "none", botType |-> "none", threw |-> FALSE, logs |-> 0,
     msg |-> Msg("none", NoText, NoText, FALSE)]

Init ==
    /\ auxBotToken \in BOOLEAN
    /\ auxChatId \in {NoChat, "aux"}
    /\ updateInterval = [c \in Chan |-> IV_NULL]
    /\ lastUpdateId = [c \in Chan |-> 0]
    /\ botInfo = [c \in Chan |-> FALSE]
    /\ disconnected \in BOOLEAN
    /\ timers = [c \in Chan |-> {}]
    /\ chains = EmptyBag
    /\ meReqs = {[chan |-> "primary", cont |-> "init"]}
    /\ feed = [c \in Chan |-> << >>]
    /\ app = AppInit
    /\ ptrCount = 0
    /\ stopped = [c \in Chan |-> FALSE]
    /\ started = [c \in Chan |-> FALSE]
    /\ dispatched = [c \in Chan |-> [i \in 1..MaxEvents |-> 0]]
    /\ idFailed = [c \in Chan |-> FALSE]
    /\ handled = NoHandled

\* getPrimaryBotMe / getAuxiliaryBotMe after the request settles
gotMe(s, c, ok) ==
    LET s1 == IF ok THEN [s EXCEPT !.botInfo[c] = TRUE]
              ELSE [s EXCEPT !.idFailed[c] = TRUE]
    IN IF c = "primary" THEN [s1 EXCEPT !.disconnected = ~ok] ELSE s1

\* an identity request settles: initializeApp, or the .then of
\* start...Polling, goes on
GetMeResponse(r, ok) ==
    /\ r \in meReqs
    /\ LET c == r.chan
           s1 == gotMe([Cur EXCEPT !.meReqs = @ \ {r}], c, ok)
           s2 == IF ok THEN startPolling(s1, c) ELSE s1
           s3 == IF r.cont = "init" /\ c = "primary" /\ AuxConfigured
                 THEN [s2 EXCEPT !.meReqs =
                          @ \cup {[chan |-> "auxiliary", cont |-> "init"]}]
                 ELSE s2
       IN Commit(s3)
    /\ UNCHANGED <<auxBotToken, auxChatId, feed, ptrCount, stopped, handled>>

\* updates and pull-to-refresh requests so far
Events == Len(feed["primary"]) + Len(feed["auxiliary"]) + ptrCount

\* a message reaches a bot
NewUpdate(c, m) ==
    /\ Events < MaxEvents
    /\ c = "auxiliary" => auxBotToken
    /\ feed' = [feed EXCEPT ![c] = Append(@, m)]
    /\ UNCHANGED <<auxBotToken, auxChatId, updateInterval, lastUpdateId,
                   botInfo, disconnected, timers, chains, meReqs, app,
                   ptrCount, stopped, started, dispatched, idFailed,
                   handled>>

\* a poll timer fires: fetch...Updates is called
TimerFire(c, t) ==
    /\ t \in timers[c]
    /\ Commit(fetchUpdates([Cur EXCEPT !.timers[c] = @ \ {t}], c, FALSE))
    /\ UNCHANGED <<auxBotToken, auxChatId, feed, ptrCount, stopped, handled>>

\* the getUpdates request of k settles
FetchResponse(k, outcome) ==
    /\ BagIn(k, chains) /\ k.phase = "fetch"
    /\ LET c == k.chan
           s == [Cur EXCEPT !.chains = @ (-) SetToBag({k})]
           updates == [i \in 1..(Len(feed[c]) - k.offset + 1) |->
                          k.offset + i - 1]
           needMe == IF c = "primary" THEN s.disconnected /\ ~s.botInfo[c]
                     ELSE ~s.botInfo[c]
           s1 == IF c = "primary" /\ updates # << >> /\ s.botInfo[c]
                 THEN [s EXCEPT !.disconnected = FALSE] ELSE s
       IN IF outcome # "ok" THEN Commit(failed(s, k))
          ELSE IF updates # << >> /\ needMe
          THEN Commit([s EXCEPT !.chains = @ (+) SetToBag(
                          {[k EXCEPT !.phase = "me", !.batch = updates]})])
          ELSE Commit(proceed(s1, k, processUpdates(s1, c, updates)))
    /\ UNCHANGED <<auxBotToken, auxChatId, feed, ptrCount, stopped, handled>>

\* the getMe or getFile request that k awaits settles
Resume(k, ok) ==
    /\ BagIn(k, chains) /\ k.phase \in {"me", "file"}
    /\ LET c == k.chan
           s == [Cur EXCEPT !.chains = @ (-) SetToBag({k})]
       IN IF k.phase = "me"
          THEN LET s1 == gotMe(s, c, ok)
               IN Commit(proceed(s1, k, processUpdates(s1, c, k.batch)))
          ELSE LET s1 == dispatchUpdate(s, c, Head(k.batch), ok)
               IN Commit(proceed(s1, k, processUpdates(s1, c, Tail(k.batch))))
    /\ UNCHANGED <<auxBotToken, auxChatId, feed, ptrCount, stopped, handled>>

\* ptrRefreshAction, called by the touchend handler
PullToRefresh ==
    /\ Events < MaxEvents
    /\ ptrCount' = ptrCount + 1
    /\ IF PtrAllowed(Cur, "primary")
       THEN Commit(ptrRefresh(Cur, "primary"))
       ELSE Commit(ptrAuxiliary(Cur))
    /\ UNCHANGED <<auxBotToken, auxChatId, feed, stopped, handled>>

\* stopAllPolling, the beforeunload handler
StopAll ==
    /\ Commit(stopPolling(stopPolling(Cur, "primary"), "auxiliary"))
    /\ stopped' = [c \in Chan |-> TRUE]
    /\ UNCHANGED <<auxBotToken, auxChatId, feed, ptrCount, handled>>

Next ==
    \/ \E r \in meReqs, ok \in BOOLEAN : GetMeResponse(r, ok)
    \/ \E c \in Chan : \E m \in FeedMsgs(c, Len(feed[c]) + 1) : NewUpdate(c, m)
    \/ \E c \in Chan : \E t \in timers[c] : TimerFire(c, t)
    \/ \E k \in BagToSet(chains), o \in Outcomes : FetchResponse(k, o)
    \/ \E k \in BagToSet(chains), ok \in BOOLEAN : Resume(k, ok)
    \/ PullToRefresh
    \/ StopAll

Spec == Init /\ [][Next]_vars

\* StartSpec: the two loops, where start...Polling is called again on a
\* channel that is active, as the continuation of a second identity retry
\* does when the first one has started the loop.
StartCall(c) ==
    /\ Truthy(updateInterval[c])
    /\ Commit(startPolling(Cur, c))
    /\ handled' = [NoHandled EXCEPT !.script = "start", !.botType = c]
    /\ UNCHANGED <<auxBotToken, auxChatId, feed, ptrCount, stopped>>

StartInit == Init /\ auxBotToken = TRUE /\ auxChatId = "aux" /\ ~disconnected

StartNext == Next \/ \E c \in Chan : StartCall(c)

StartSpec == StartInit /\ [][StartNext]_vars

\* LiveSpec: both loops configured, with a storage that refuses the ticker
\* text, under the progress the event loop and the network give: a pending
\* timer fires, an awaited getMe or getFile settles, and the getUpdates
\* requests of a channel do not fail for ever.
LiveInit ==
    /\ auxBotToken = TRUE
    /\ auxChatId = "aux"
    /\ updateInterval = [c \in Chan |-> IV_NULL]
    /\ lastUpdateId = [c \in Chan |-> 0]
    /\ botInfo = [c \in Chan |-> FALSE]
    /\ disconnected = FALSE
    /\ timers = [c \in Chan |-> {}]
    /\ chains = EmptyBag
    /\ meReqs = {[chan |-> "primary", cont |-> "init"]}
    /\ feed = [c \in Chan |-> << >>]
    /\ app = [AppInit EXCEPT !.failing = {TICKER_KEY}]
    /\ ptrCount = 0
    /\ stopped = [c \in Chan |-> FALSE]
    /\ started = [c \in Chan |-> FALSE]
    /\ dispatched = [c \in Chan |-> [i \in 1..MaxEvents |-> 0]]
    /\ idFailed = [c \in Chan |-> FALSE]
    /\ handled = NoHandled

TimerStep(c) == \E t \in timers[c] : TimerFire(c, t)

ResumeStep(c) == \E k \in ChainsOf(chains, c), ok \in BOOLEAN : Resume(k, ok)

OkFetchStep(c) == \E k \in ChainsOf(chains, c) : FetchResponse(k, "ok")

MeStep == \E r \in meReqs, ok \in BOOLEAN : GetMeResponse(r, ok)

\* the states where ResumeStep(c), resp. OkFetchStep(c), is enabled
AwaitingResume(c) == \E k \in ChainsOf(chains, c) : k.phase \in {"me", "file"}

AwaitingFetch(c) == \E k \in ChainsOf(chains, c) : k.phase = "fetch"

\* weak fairness of ResumeStep(c) and strong fairness of OkFetchStep(c),
\* with ENABLED written out as AwaitingResume(c) and AwaitingFetch(c)
LiveSpec ==
    /\ LiveInit
    /\ [][Next]_vars
    /\ WF_vars(MeStep)
    /\ \A c \in Chan :
          /\ WF_vars(TimerStep(c))
          /\ []<>(~AwaitingResume(c)) \/ []<><<ResumeStep(c)>>_vars
          /\ <>[](~AwaitingFetch(c)) \/ []<><<OkFetchStep(c)>>_vars

\* ------------------------------------------- dispatch of single messages
DispatchInit ==
    /\ auxBotToken \in BOOLEAN
    /\ auxChatId \in {NoChat, "main", "aux"}
    /\ updateInterval = [c \in Chan |-> IV_NULL]
    /\ lastUpdateId = [c \in Chan |-> 0]
    /\ botInfo = [c \in Chan |-> FALSE]
    /\ disconnected = FALSE
    /\ timers = [c \in Chan |-> {}]
    /\ chains = EmptyBag
    /\ meReqs = {}
    /\ feed = [c \in Chan |-> << >>]
    /\ app = AppInit
    /\ ptrCount = 0
    /\ stopped = [c \in Chan |-> FALSE]
    /\ started = [c \in Chan |-> FALSE]
    /\ dispatched = [c \in Chan |-> [i \in 1..MaxEvents |-> 0]]
    /\ idFailed = [c \in Chan |-> FALSE]
    /\ handled = NoHandled

\* the body of the for loop on the next update, which carries m
LoopBody(script, botType, m, fileOk) ==
    /\ lastUpdateId["primary"] + lastUpdateId["auxiliary"] < MaxDispatch
    /\ lastUpdateId' = [lastUpdateId EXCEPT ![botType] = @ + 1]
    /\ IF PassesFilter(script, botType, m.chat)
       THEN LET res == ProcessMessage(script, app, botType, m, fileOk)
            IN /\ app' = res.app
               /\ handled' = [script |-> script, botType |-> botType,
                              threw |-> res.threw, logs |-> res.logs,
                              msg |-> m]
       ELSE /\ app' = app
            /\ handled' = [script |-> script, botType |-> botType,
                           threw |-> FALSE, logs |-> 0, msg |-> m]
    /\ UNCHANGED <<auxBotToken, auxChatId, updateInterval, botInfo,
                   disconnected, timers, chains, meReqs, feed, ptrCount,
                   stopped, started, dispatched, idFailed>>

\* processUpdates([update], botType) of the dual-channel script
ProcessUpdate(botType, m, fileOk) ==
    /\ botType = "auxiliary" => AuxConfigured
    /\ LoopBody("dual", botType, m, fileOk)

\* the loop body of getUpdates of src/script.js; its one loop polls the
\* primary bot
GetUpdatesBody(m, fileOk) == LoopBody("single", "primary", m, fileOk)

DispatchNext ==
    \/ \E c \in Chan, m \in DispatchMsgs, f \in BOOLEAN : ProcessUpdate(c, m, f)
    \/ \E m \in DispatchMsgs, f \in BOOLEAN : GetUpdatesBody(m, f)

DispatchSpec == DispatchInit /\ [][DispatchNext]_vars

\* ---------------------------------------------------------- product grid
\* ProductSpec: the product commands on a grid as loadAllProductData leaves
\* it at page load (the stored records rebuilt as cards in id order and
\* renumbered 1..n), with storage writes that may fail for one id.

\* the record stored for product i at page load; the odd ones have an image
InitProduct(i) ==
    [name |-> "P" \o ToStr(i), description |-> "D" \o ToStr(i),
     priceCUP |-> Some(100 * i), priceMLC |-> None,
     imageUrl |-> IF i % 2 = 1 THEN "img" \o ToStr(i) ELSE NoUrl]

\* the card updateProductCard builds for a record
CardOf(productId, data) ==
    [id |-> productId, name |-> data.name, description |-> data.description,
     priceCUP |-> data.priceCUP, priceMLC |-> data.priceMLC,
     imageUrl |-> data.imageUrl]

\* the application state after loadAllProductData with n stored products
LoadedApp(n, failing) ==
    [AppInit EXCEPT
       !.grid = [i \in 1..n |-> CardOf(ToStr(i), InitProduct(i))],
       !.store = [d \in DOMAIN NumVal |->
                    IF NumVal[d] \in 1..n THEN Some(InitProduct(NumVal[d]))
                    ELSE None],
       !.failing = failing]

ProductInit ==
    /\ auxBotToken = FALSE
    /\ auxChatId = NoChat
    /\ updateInterval = [c \in Chan |-> IV_NULL]
    /\ lastUpdateId = [c \in Chan |-> 0]
    /\ botInfo = [c \in Chan |-> FALSE]
    /\ disconnected = FALSE
    /\ timers = [c \in Chan |-> {}]
    /\ chains = EmptyBag
    /\ meReqs = {}
    /\ feed = [c \in Chan |-> << >>]
    /\ \E n \in 0..MaxProducts :
         \E failing \in {{}} \cup {{ToStr(i)} : i \in 1..MaxProducts} :
            app = LoadedApp(n, failing)
    /\ ptrCount = 0
    /\ stopped = [c \in Chan |-> FALSE]
    /\ started = [c \in Chan |-> FALSE]
    /\ dispatched = [c \in Chan |-> [i \in 1..MaxEvents |-> 0]]
    /\ idFailed = [c \in Chan |-> FALSE]
    /\ handled = NoHandled

\* processUpdates([update], 'primary') on a product command
ProductUpdate(m, fileOk) ==
    /\ m \in ProductMsgs
    /\ LoopBody("dual", "primary", m, fileOk)

ProductNext == \E m \in ProductMsgs, f \in BOOLEAN : ProductUpdate(m, f)

ProductSpec == ProductInit /\ [][ProductNext]_vars

\* -------------------------------------------------------------- grammar
\* GrammarSpec: the loop body of the dual-channel script on the texts of
\* GrammarMsgs, starting with nothing stored.
GrammarInit == DispatchInit /\ auxBotToken = FALSE /\ auxChatId = NoChat

GrammarUpdate(m, fileOk) ==
    /\ m \in GrammarMsgs
    /\ LoopBody("dual", "primary", m, fileOk)

GrammarNext == \E m \in GrammarMsgs, f \in BOOLEAN : GrammarUpdate(m, f)

GrammarSpec == GrammarInit /\ [][GrammarNext]_vars

\* --------------------------------------------------------- chat history
\* ChatSpec: addMessageToChat and clearChat on the chat history, called
\* with entries of every type, with and without text and image.

EntryTypes == {"sent", "received", "system", "error"}
EntryTexts == {NoText, <<"hola">>}
EntryTimes == {1, 2}
EntryImages == {NoUrl, "file/primary"}

\* the object addMessageToChat pushes: text || null, imageUrl || null
EntryOf(text, type, timestamp, imageUrl) ==
    [text |-> text, type |-> type, sender |-> "Ana", timestamp |-> timestamp,
     imageUrl |-> imageUrl]

ChatInit ==
    /\ auxBotToken = FALSE
    /\ auxChatId = NoChat
    /\ updateInterval = [c \in Chan |-> IV_NULL]
    /\ lastUpdateId = [c \in Chan |-> 0]
    /\ botInfo = [c \in Chan |-> FALSE]
    /\ disconnected = FALSE
    /\ timers = [c \in Chan |-> {}]
    /\ chains = EmptyBag
    /\ meReqs = {}
    /\ feed = [c \in Chan |-> << >>]
    /\ app = AppInit
    /\ ptrCount = 0
    /\ stopped = [c \in Chan |-> FALSE]
    /\ started = [c \in Chan |-> FALSE]
    /\ dispatched = [c \in Chan |-> [i \in 1..MaxEvents |-> 0]]
    /\ idFailed = [c \in Chan |-> FALSE]
    /\ handled = NoHandled

\* addMessageToChat(text, type, sender, timestamp, imageUrl, true, ...)
AddMessage(text, type, timestamp, imageUrl) ==
    /\ Len(app.chatHistory) < MaxHistory
    /\ app' = addMessageToChat(app, text, type, "Ana", timestamp, imageUrl)
    /\ UNCHANGED <<auxBotToken, auxChatId, updateInterval, lastUpdateId,
                   botInfo, disconnected, timers, chains, meReqs, feed,
                   ptrCount, stopped, started, dispatched, idFailed, handled>>

\* clearChat(chatHistory, storageKey)
ClearChat ==
    /\ app.chatHistory # << >>
    /\ app' = clearChat(app)
    /\ UNCHANGED <<auxBotToken, auxChatId, updateInterval, lastUpdateId,
                   botInfo, disconnected, timers, chains, meReqs, feed,
                   ptrCount, stopped, started, dispatched, idFailed, handled>>

ChatNext ==
    \/ \E text \in EntryTexts, type \in EntryTypes, timestamp \in EntryTimes,
          imageUrl \in EntryImages :
            AddMessage(text, type, timestamp, imageUrl)
    \/ ClearChat

ChatSpec == ChatInit /\ [][ChatNext]_vars

\* ------------------------------------------------------------------- cart
\* CartSpec: the cart of src/storage.js under the buy button, the removal
\* and the decrease of an item, the emptying of the cart, the currency
\* switch of the page and a reload of the page.

Currencies == {"CUP", "MLC"}
CartProducts == {"1", "2"}
CartQuantities == {0, 1, 2}

\* the price the buy button reads from the product for the selected currency
PriceIn(productId, currency) ==
    IF currency = "MLC" THEN NumVal[productId] ELSE 100 * NumVal[productId]

NameOf(productId) == <<"Producto", productId>>

\* indexes of the cart items of a product id, String(item.id) === idStr
IndexesOf(items, productId) ==
    {i \in 1..Len(items) : items[i].id = productId}

\* Array.prototype.filter
RECURSIVE FilterItems(_, _)
FilterItems(items, keep) ==
    IF items = << >> THEN << >>
    ELSE IF keep[1] THEN <<items[1]>> \o FilterItems(Tail(items), Tail(keep))
         ELSE FilterItems(Tail(items), Tail(keep))

\* localStorage.setItem(CART_STORAGE_KEY, JSON.stringify(cartItems))
saveCart(a) == [a EXCEPT !.cartStored = Some(a.cartItems)]

\* the reading of the stored cart when the page loads
loadCart(a) ==
    IF a.cartStored # None
    THEN LET loadedItems ==
                 [i \in 1..Len(a.cartStored[1]) |->
                    [a.cartStored[1][i] EXCEPT
                        !.quantity = IF @ > 0 THEN @ ELSE 1]]
         IN IF Len(loadedItems) > 0
            THEN [a EXCEPT !.cartItems = loadedItems,
                           !.cartCurrency = a.currentCurrency]
            ELSE [a EXCEPT !.cartItems = << >>, !.cartCurrency = NoCurrency]
    ELSE [a EXCEPT !.cartItems = << >>, !.cartCurrency = NoCurrency]

\* a removal that leaves the currency of the cart as it was
removeFromCart_KeepCurrency(a, productId) ==
    LET kept == FilterItems(a.cartItems,
                    [i \in 1..Len(a.cartItems) |->
                        a.cartItems[i].id # productId])
    IN IF Len(kept) < Len(a.cartItems)
       THEN saveCart([a EXCEPT !.cartItems = kept])
       ELSE a

removeFromCart(a, productId) ==
    LET kept == FilterItems(a.cartItems,
                    [i \in 1..Len(a.cartItems) |->
                        a.cartItems[i].id # productId])
    IN IF Len(kept) < Len(a.cartItems)
       THEN saveCart([a EXCEPT !.cartItems = kept,
                               !.cartCurrency = IF kept = << >>
                                                THEN NoCurrency ELSE @])
       ELSE a

\* an addition that does not compare the currencies
addToCart_AnyCurrency(a, productId, name, price, quantity) ==
    IF quantity <= 0 THEN a
    ELSE LET b == IF a.cartItems = << >>
                  THEN [a EXCEPT !.cartCurrency = a.currentCurrency] ELSE a
             existing == IndexesOf(b.cartItems, productId)
         IN IF existing # {}
            THEN LET i == CHOOSE j \in existing : \A k \in existing : j <= k
                 IN saveCart([b EXCEPT !.cartItems[i].quantity = @ + quantity,
                                       !.cartItems[i].price = price])
            ELSE saveCart([b EXCEPT !.cartItems =
                              Append(@, [id |-> productId, name |-> name,
                                         price |-> price,
                                         quantity |-> quantity])])

addToCart(a, productId, name, price, quantity) ==
    IF quantity <= 0 THEN a
    ELSE LET selectedCurrency == a.currentCurrency
         IN IF a.cartItems # << >> /\ selectedCurrency # a.cartCurrency
            THEN a
            ELSE LET b == IF a.cartItems = << >>
                          THEN [a EXCEPT !.cartCurrency = selectedCurrency]
                          ELSE a
                     existing == IndexesOf(b.cartItems, productId)
                 IN IF existing # {}
                    THEN LET i == CHOOSE j \in existing :
                                      \A k \in existing : j <= k
                         IN saveCart([b EXCEPT
                                !.cartItems[i].quantity = @ + quantity,
                                !.cartItems[i].price = price])
                    ELSE saveCart([b EXCEPT !.cartItems =
                              Append(@, [id |-> productId, name |-> name,
                                         price |-> price,
                                         quantity |-> quantity])])

decreaseCartItemQuantity(a, productId, quantityToRemove) ==
    LET existing == IndexesOf(a.cartItems, productId)
    IN IF existing # {}
       THEN LET i == CHOOSE j \in existing : \A k \in existing : j <= k
                left == a.cartItems[i].quantity - quantityToRemove
            IN IF left <= 0
               THEN LET kept == FilterItems(a.cartItems,
                                   [j \in 1..Len(a.cartItems) |-> j # i])
                    IN saveCart([a EXCEPT
                           !.cartItems = kept,
                           !.cartCurrency = IF kept = << >> THEN NoCurrency
                                            ELSE @])
               ELSE saveCart([a EXCEPT !.cartItems[i].quantity = left])
       ELSE a

clearCart(a) ==
    saveCart([a EXCEPT !.cartItems = << >>, !.cartCurrency = NoCurrency])

setSelectedCurrency(a, currency) ==
    IF currency # a.currentCurrency
    THEN [a EXCEPT !.currentCurrency = currency,
                   !.currencyStored = Some(currency)]
    ELSE a

initializeCurrencySwitch(a) ==
    [a EXCEPT !.currentCurrency = IF a.currencyStored = Some("MLC")
                                  THEN "MLC" ELSE "CUP"]

CartInit == ChatInit

\* the click on the buy button of a product card with a quantity
AddToCart(productId, quantity) ==
    /\ \A i \in IndexesOf(app.cartItems, productId) :
          app.cartItems[i].quantity + quantity <= MaxQuantity
    /\ app' = addToCart(app, productId, NameOf(productId),
                        PriceIn(productId, app.currentCurrency), quantity)
    /\ UNCHANGED <<auxBotToken, auxChatId, updateInterval, lastUpdateId,
                   botInfo, disconnected, timers, chains, meReqs, feed,
                   ptrCount, stopped, started, dispatched, idFailed, handled>>

RemoveFromCart(productId) ==
    /\ app' = removeFromCart(app, productId)
    /\ UNCHANGED <<auxBotToken, auxChatId, updateInterval, lastUpdateId,
                   botInfo, disconnected, timers, chains, meReqs, feed,
                   ptrCount, stopped, started, dispatched, idFailed, handled>>

DecreaseCartItemQuantity(productId, quantityToRemove) ==
    /\ app' = decreaseCartItemQuantity(app, productId, quantityToRemove)
    /\ UNCHANGED <<auxBotToken, auxChatId, updateInterval, lastUpdateId,
                   botInfo, disconnected, timers, chains, meReqs, feed,
                   ptrCount, stopped, started, dispatched, idFailed, handled>>

ClearCart ==
    /\ app' = clearCart(app)
    /\ UNCHANGED <<auxBotToken, auxChatId, updateInterval, lastUpdateId,
                   botInfo, disconnected, timers, chains, meReqs, feed,
                   ptrCount, stopped, started, dispatched, idFailed, handled>>

\* the change event of the currency toggle
SetSelectedCurrency(currency) ==
    /\ app' = setSelectedCurrency(app, currency)
    /\ UNCHANGED <<auxBotToken, auxChatId, updateInterval, lastUpdateId,
                   botInfo, disconnected, timers, chains, meReqs, feed,
                   ptrCount, stopped, started, dispatched, idFailed, handled>>

\* a reload of the page: the module state starts anew, the currency switch
\* and the cart are initialized from localStorage
PageReload ==
    /\ app' = loadCart(initializeCurrencySwitch(
                  [app EXCEPT !.cartItems = << >>,
                              !.cartCurrency = NoCurrency,
                              !.currentCurrency = "CUP"]))
    /\ UNCHANGED <<auxBotToken, auxChatId, updateInterval, lastUpdateId,
                   botInfo, disconnected, timers, chains, meReqs, feed,
                   ptrCount, stopped, started, dispatched, idFailed, handled>>

CartNext ==
    \/ \E productId \in CartProducts, quantity \in CartQuantities :
          AddToCart(productId, quantity)
    \/ \E productId \in CartProducts : RemoveFromCart(productId)
    \/ \E productId \in CartProducts, quantityToRemove \in {1, 2} :
          DecreaseCartItemQuantity(productId, quantityToRemove)
    \/ ClearCart
    \/ \E currency \in Currencies : SetSelectedCurrency(currency)
    \/ PageReload

CartSpec == CartInit /\ [][CartNext]_vars

\* --------------------------------------------------------------- checkout
\* CheckoutSpec: the checkout form of src/checkout.js: the opening and the
\* closing of the modal, handleCheckoutSubmit with its validation, its
\* order count and its two awaited sends, the buy button, and the clock.
\* The writes of the cart to localStorage are taken to succeed.

MINUTES_PER_DAY == 1440

\* minutes local time is ahead of UTC (-getTimezoneOffset())
TzOffsets == {-300, 0, 120}

\* the instants of the clock, in minutes of UTC from day 0, 00:00
Instants == <<1470, 1500, 2150, 2151, 2850, 2910>>

\* the values of the date input, as day numbers
Days == {0, 1, 2}

\* the values of the mobile input after trim(): an optional + and digits
Mobiles == {[plus |-> FALSE, digits |-> 0], [plus |-> FALSE, digits |-> 5],
            [plus |-> TRUE, digits |-> 10], [plus |-> FALSE, digits |-> 10]}

Nombres == {"", "Ana"}

ORDER_KEY == "orderCount"   \* in failing: setItem of an order count throws

\* /^\+?[0-9]{1,4}[0-9]{7,14}$/.test(movil)
IsMobile(movil) == movil.digits >= 8 /\ movil.digits <= 18

\* Date.UTC(now.getUTCFullYear(), now.getUTCMonth(), now.getUTCDate())
UtcDay(now) == now \div MINUTES_PER_DAY

\* the local date, the date part of the ISO string of now - offset
LocalDay(now, tz) == (now + tz) \div MINUTES_PER_DAY

getHours(now, tz) == ((now + tz) % MINUTES_PER_DAY) \div 60
getMinutes(now, tz) == ((now + tz) % MINUTES_PER_DAY) % 60

isTimeAllowed(currentHour, currentMinute) ==
    \/ currentHour >= 1 /\ currentHour < 11
    \/ currentHour = 11 /\ currentMinute <= 50

\* the date validation of handleCheckoutSubmit
DateVerdict(now, tz, fecha) ==
    LET todayUTC == UtcDay(now)
        selectedDateUTC == fecha
    IN IF selectedDateUTC < todayUTC THEN "past"
       ELSE IF selectedDateUTC = todayUTC
               /\ ~isTimeAllowed(getHours(now, tz), getMinutes(now, tz))
            THEN "time"
            ELSE "ok"

HasCount(a, movil) == \E i \in 1..Len(a.orderCount) : a.orderCount[i].movil = movil

\* localStorage.getItem(ORDER_COUNT_STORAGE_PREFIX + movil), a string
StoredCount(a, movil) ==
    (CHOOSE i \in 1..Len(a.orderCount) : a.orderCount[i].movil = movil)

loadCustomerOrderCount(a, mobileNumber) ==
    IF HasCount(a, mobileNumber)
    THEN LET count == NumVal[a.orderCount[StoredCount(a, mobileNumber)].count]
         IN IF count >= 0 THEN count ELSE 0
    ELSE 0

saveCustomerOrderCount(a, mobileNumber, count) ==
    IF count < 0 \/ ORDER_KEY \in a.failing THEN a
    ELSE IF HasCount(a, mobileNumber)
         THEN [a EXCEPT !.orderCount[StoredCount(a, mobileNumber)].count =
                            ToStr(count)]
         ELSE [a EXCEPT !.orderCount =
                  Append(@, [movil |-> mobileNumber, count |-> ToStr(count)])]

showCheckoutModal(a) ==
    [a EXCEPT !.errorShown = FALSE, !.submitDisabled = FALSE,
              !.fechaMin = LocalDay(a.now, a.tz), !.checkoutOpen = TRUE]

hideCheckoutModal(a) == [a EXCEPT !.checkoutOpen = FALSE]

showMlcPaymentModal(a) == [a EXCEPT !.mlcShown = TRUE]

\* the record of a submission that has run up to its first await
Order(nombre, movil, fecha, outcome) ==
    Some([nombre |-> nombre, movil |-> movil, fecha |-> fecha,
          outcome |-> outcome])

\* the record of a submission whose sends have settled
Settled(movil, outcome, aux) ==
    Some([movil |-> movil, outcome |-> outcome, aux |-> aux])

\* the rejections of handleCheckoutSubmit: message shown, button enabled
RejectSubmit(a, nombre, movil, fecha, why) ==
    [a EXCEPT !.errorShown = TRUE, !.submitDisabled = FALSE,
              !.lastOrder = Order(nombre, movil, fecha, why)]

\* handleCheckoutSubmit up to its first await
submitStart(a, nombre, movil, fecha) ==
    LET a1 == [a EXCEPT !.errorShown = FALSE, !.submitDisabled = TRUE]
    IN IF nombre = "" \/ (movil.digits = 0 /\ ~movil.plus)
       THEN RejectSubmit(a1, nombre, movil, fecha, "required")
       ELSE IF ~IsMobile(movil)
       THEN RejectSubmit(a1, nombre, movil, fecha, "mobile")
       ELSE IF DateVerdict(a.now, a.tz, fecha) # "ok"
       THEN RejectSubmit(a1, nombre, movil, fecha,
                         DateVerdict(a.now, a.tz, fecha))
       ELSE LET previousOrderCount == loadCustomerOrderCount(a1, movil)
                newOrderCount == previousOrderCount + 1
                a2 == saveCustomerOrderCount(a1, movil, newOrderCount)
            IN [a2 EXCEPT
                  !.submits = Append(@, [movil |-> movil, phase |-> "primary",
                                         selectedCurrency |->
                                             a.currentCurrency]),
                  !.lastOrder = Order(nombre, movil, fecha, "sending")]

\* the statements after the sends, with the outcome of the auxiliary send
submitSuccess(a, i, aux) ==
    LET a1 == IF a.submits[i].selectedCurrency = "MLC"
              THEN showMlcPaymentModal(a) ELSE a
        a2 == hideCheckoutModal(clearCart(a1))
    IN [a2 EXCEPT !.submits = RemoveAt(@, i),
                  !.lastOrder = Settled(a.submits[i].movil, "sent", aux)]

\* a catch block that empties the cart as the success path does
submitCatch_Clear(a, i) ==
    [clearCart(a) EXCEPT
        !.errorShown = TRUE, !.submitDisabled = FALSE,
        !.submits = RemoveAt(@, i),
        !.lastOrder = Settled(a.submits[i].movil, "failed", "none")]

\* the catch block of the sends
submitCatch(a, i) ==
    [a EXCEPT !.errorShown = TRUE, !.submitDisabled = FALSE,
              !.submits = RemoveAt(@, i),
              !.lastOrder = Settled(a.submits[i].movil, "failed", "none")]

\* submissions that have passed validation so far
OrdersTaken(a) ==
    LET counted[i \in 0..Len(a.orderCount)] ==
            IF i = 0 THEN 0
            ELSE counted[i - 1] + NumVal[a.orderCount[i].count]
    IN counted[Len(a.orderCount)]

CheckoutFrame ==
    UNCHANGED <<auxBotToken, auxChatId, updateInterval, lastUpdateId,
                botInfo, disconnected, timers, chains, meReqs, feed,
                ptrCount, stopped, started, dispatched, idFailed, handled>>

\* the page after its load, in a browser on UTC: the auxiliary channel
\* configured or not, either currency selected, the writes of the order
\* counts failing or not
CheckoutInit ==
    /\ auxBotToken \in BOOLEAN
    /\ auxChatId \in {NoChat, "aux"}
    /\ auxBotToken <=> auxChatId # NoChat
    /\ updateInterval = [c \in Chan |-> IV_NULL]
    /\ lastUpdateId = [c \in Chan |-> 0]
    /\ botInfo = [c \in Chan |-> FALSE]
    /\ disconnected = FALSE
    /\ timers = [c \in Chan |-> {}]
    /\ chains = EmptyBag
    /\ meReqs = {}
    /\ feed = [c \in Chan |-> << >>]
    /\ \E currency \in Currencies, fails \in BOOLEAN :
          app = [AppInit EXCEPT !.now = Instants[1], !.tz = 0,
                                !.currentCurrency = currency,
                                !.failing = IF fails THEN {ORDER_KEY} ELSE {}]
    /\ ptrCount = 0
    /\ stopped = [c \in Chan |-> FALSE]
    /\ started = [c \in Chan |-> FALSE]
    /\ dispatched = [c \in Chan |-> [i \in 1..MaxEvents |-> 0]]
    /\ idFailed = [c \in Chan |-> FALSE]
    /\ handled = NoHandled

\* the page after its load in a browser of each time zone, with both
\* channels configured and CUP selected
DateInit ==
    /\ auxBotToken = TRUE
    /\ auxChatId = "aux"
    /\ updateInterval = [c \in Chan |-> IV_NULL]
    /\ lastUpdateId = [c \in Chan |-> 0]
    /\ botInfo = [c \in Chan |-> FALSE]
    /\ disconnected = FALSE
    /\ timers = [c \in Chan |-> {}]
    /\ chains = EmptyBag
    /\ meReqs = {}
    /\ feed = [c \in Chan |-> << >>]
    /\ \E tz \in TzOffsets :
          app = [AppInit EXCEPT !.now = Instants[1], !.tz = tz]
    /\ ptrCount = 0
    /\ stopped = [c \in Chan |-> FALSE]
    /\ started = [c \in Chan |-> FALSE]
    /\ dispatched = [c \in Chan |-> [i \in 1..MaxEvents |-> 0]]
    /\ idFailed = [c \in Chan |-> FALSE]
    /\ handled = NoHandled

\* the clock moves on to a later instant
Tick ==
    /\ \E i \in 1..Len(Instants) :
          /\ Instants[i] > app.now
          /\ app' = [app EXCEPT !.now = Instants[i]]
    /\ CheckoutFrame

\* the buy button, for one unit of product 1, on an empty cart
BuyOne ==
    /\ app.cartItems = << >>
    /\ app' = addToCart(app, "1", NameOf("1"),
                        PriceIn("1", app.currentCurrency), 1)
    /\ CheckoutFrame

\* the checkout button of the cart
ShowCheckout ==
    /\ ~app.checkoutOpen
    /\ app' = showCheckoutModal(app)
    /\ CheckoutFrame

\* the close button of the checkout modal
HideCheckout ==
    /\ app.checkoutOpen
    /\ app' = hideCheckoutModal(app)
    /\ CheckoutFrame

\* the submit event of the form: the modal is open, the button enabled and
\* the date not before the min attribute of the date input
Submit(nombre, movil, fecha) ==
    /\ app.checkoutOpen /\ ~app.submitDisabled
    /\ fecha >= app.fechaMin
    /\ OrdersTaken(app) + Len(app.submits) < MaxOrders
    /\ app' = submitStart(app, nombre, movil, fecha)
    /\ CheckoutFrame

\* the primary send settles
PrimarySent(i, ok) ==
    /\ i \in 1..Len(app.submits)
    /\ app.submits[i].phase = "primary"
    /\ app' = IF ~ok THEN submitCatch(app, i)
              ELSE IF auxChatId # NoChat /\ auxBotToken
                   THEN [app EXCEPT !.submits[i].phase = "aux"]
                   ELSE submitSuccess(app, i, "none")
    /\ CheckoutFrame

\* the auxiliary send settles
AuxSent(i, ok) ==
    /\ i \in 1..Len(app.submits)
    /\ app.submits[i].phase = "aux"
    /\ app' = submitSuccess(app, i, IF ok THEN "ok" ELSE "failed")
    /\ CheckoutFrame

CheckoutNext ==
    \/ Tick
    \/ BuyOne
    \/ ShowCheckout
    \/ HideCheckout
    \/ \E nombre \in Nombres, movil \in Mobiles, fecha \in Days :
          Submit(nombre, movil, fecha)
    \/ \E i \in 1..MaxOrders, ok \in BOOLEAN : PrimarySent(i, ok)
    \/ \E i \in 1..MaxOrders, ok \in BOOLEAN : AuxSent(i, ok)

CheckoutSpec == CheckoutInit /\ [][CheckoutNext]_vars

\* DateSpec: the checkout form under the clocks of three time zones.
DateSpec == DateInit /\ [][CheckoutNext]_vars

\* ------------------------------------------------------- long chat history
\* TrimSpec: addMessageToChat and clearChat on a chat history that was
\* loaded with one entry less than maxStoredMessages, or with exactly
\* maxStoredMessages entries, the writes of the history failing or not.

\* the history loadChatHistory returns from a stored copy of n entries
LoadedHistory(n) ==
    [i \in 1..n |-> EntryOf(<<"hola">>, "received", i, NoUrl)]

TrimInit ==
    /\ auxBotToken = FALSE
    /\ auxChatId = NoChat
    /\ updateInterval = [c \in Chan |-> IV_NULL]
    /\ lastUpdateId = [c \in Chan |-> 0]
    /\ botInfo = [c \in Chan |-> FALSE]
    /\ disconnected = FALSE
    /\ timers = [c \in Chan |-> {}]
    /\ chains = EmptyBag
    /\ meReqs = {}
    /\ feed = [c \in Chan |-> << >>]
    /\ \E n \in {maxStoredMessages - 1, maxStoredMessages},
          fails \in BOOLEAN :
          app = [AppInit EXCEPT !.chatHistory = LoadedHistory(n),
                                !.storedChat = Some(LoadedHistory(n)),
                                !.failing = IF fails THEN {CHAT_KEY} ELSE {}]
    /\ ptrCount = 0
    /\ stopped = [c \in Chan |-> FALSE]
    /\ started = [c \in Chan |-> FALSE]
    /\ dispatched = [c \in Chan |-> [i \in 1..MaxEvents |-> 0]]
    /\ idFailed = [c \in Chan |-> FALSE]
    /\ handled = NoHandled

\* addMessageToChat(text, type, sender, timestamp, imageUrl, true, ...) on
\* a history around the length maxStoredMessages
AddToLong(text, type, timestamp, imageUrl) ==
    /\ Len(app.chatHistory) >= maxStoredMessages - 1
    /\ Len(app.chatHistory) < maxStoredMessages + MaxHistory - 1
    /\ app' = addMessageToChat(app, text, type, "Ana", timestamp, imageUrl)
    /\ UNCHANGED <<auxBotToken, auxChatId, updateInterval, lastUpdateId,
                   botInfo, disconnected, timers, chains, meReqs, feed,
                   ptrCount, stopped, started, dispatched, idFailed, handled>>

TrimNext ==
    \/ \E text \in EntryTexts, type \in EntryTypes, timestamp \in EntryTimes,
          imageUrl \in EntryImages :
            AddToLong(text, type, timestamp, imageUrl)
    \/ ClearChat

TrimSpec == TrimInit /\ [][TrimNext]_vars

\* ---------------------------------------------------------------- roulette
\* RouletteSpec: the roulette button under *RULETA* texts from the primary
\* chat, clicks, and the removal of a button whose attempts are used up.

\* processUpdates([update], "primary") on a *RULETA* text
RouletteOffer(m) ==
    /\ m \in RouletteMsgs
    /\ LoopBody("dual", "primary", m, FALSE)

\* a click on the roulette button; a disabled button receives no clicks
RouletteClick ==
    /\ app.roulette # << >>
    /\ ~app.rouletteDisabled
    /\ app' = rouletteClick(app)
    /\ UNCHANGED <<auxBotToken, auxChatId, updateInterval, lastUpdateId,
                   botInfo, disconnected, timers, chains, meReqs, feed,
                   ptrCount, stopped, started, dispatched, idFailed, handled>>

\* transitionend, or the timeout 600 ms after the last attempt: the button
\* is removed if it is still in the document
RouletteRemoved ==
    /\ app.roulette # << >>
    /\ app.rouletteDisabled
    /\ app' = [app EXCEPT !.roulette = Tail(@), !.rouletteDisabled = FALSE]
    /\ UNCHANGED <<auxBotToken, auxChatId, updateInterval, lastUpdateId,
                   botInfo, disconnected, timers, chains, meReqs, feed,
                   ptrCount, stopped, started, dispatched, idFailed, handled>>

RouletteNext ==
    \/ \E m \in RouletteMsgs : RouletteOffer(m)
    \/ RouletteClick
    \/ RouletteRemoved

RouletteSpec == GrammarInit /\ [][RouletteNext]_vars

\* ------------------------------------------------------------ properties

\* the chat a loop of the given bot is bound to
BoundChat(botType) == IF botType = "primary" THEN MAIN_CHAT_ID ELSE auxChatId

\* C1: once polling of a channel has started, no step lowers its
\* last-seen update id.
C1_CursorNonDecreasing ==
    [][\A c \in Chan : started[c] => lastUpdateId'[c] >= lastUpdateId[c]]_vars

\* C2: no update id is dispatched more than once on a channel.
C2_DispatchedAtMostOnce ==
    \A c \in Chan : \A i \in 1..MaxEvents : dispatched[c][i] <= 1

\* C3: the timer left behind by a failed fetch (an exception or an empty
\* response) waits the 15 s backoff, the one left by a successful fetch
\* waits 100 ms.
C3_BackoffAfterFailure ==
    \A c \in Chan : \A t \in timers[c] :
        /\ t.after = "fail" => t.delay = RETRY_DELAY
        /\ t.after = "ok" => t.delay = POLL_DELAY

\* C4: a channel has at most one fetch in flight, forced refreshes included.
C4_SingleFetchInFlight ==
    \A c \in Chan : NumChains(chains, c) <= 1

\* C5: once a channel has been stopped, no step issues a fetch on it or
\* arms a timer for it.
C5_NothingAfterStop ==
    [][\A c \in Chan :
          stopped[c] => /\ NumChains(chains', c) <= NumChains(chains, c)
                        /\ timers'[c] \subseteq timers[c]]_vars

\* C6: a channel whose identity request failed, and that nobody stopped,
\* has another identity request under way until the identity is known.
C6_IdentityRetried ==
    \A c \in Chan :
        (idFailed[c] /\ ~botInfo[c] /\ ~stopped[c])
            => \/ \E r \in meReqs : r.chan = c
               \/ \E k \in BagToSet(chains) : k.chan = c /\ k.phase = "me"

\* C7: a channel with a fetch in flight, a pending timer or a running
\* loop knows the identity of its bot.
C7_IdentityBeforeFetch ==
    \A c \in Chan :
        (NumChains(chains, c) > 0 \/ timers[c] # {}
            \/ Truthy(updateInterval[c])) => botInfo[c]

\* a forced refresh has put fetches in flight on both channels
C7_Witness ==
    /\ ptrCount > 0
    /\ \E k \in BagToSet(chains) : k.chan = "primary" /\ k.ptr
    /\ NumChains(chains, "auxiliary") > 0
    /\ botInfo["primary"] /\ botInfo["auxiliary"]

\* C8: unless both the auxiliary token and the auxiliary chat id are
\* configured, the auxiliary channel stays stopped: no identity request,
\* no loop, no fetch, no timer.
C8_AuxStaysStopped ==
    ~(auxBotToken /\ auxChatId # NoChat) =>
        /\ updateInterval["auxiliary"] = IV_NULL
        /\ NumChains(chains, "auxiliary") = 0
        /\ timers["auxiliary"] = {}
        /\ \A r \in meReqs : r.chan # "auxiliary"
        /\ ~botInfo["auxiliary"]

\* a token without a chat id, the primary loop running, and a forced
\* refresh that is over
C8_Witness ==
    /\ auxBotToken /\ auxChatId = NoChat
    /\ ptrCount > 0
    /\ botInfo["primary"]
    /\ \A k \in BagToSet(chains) : ~k.ptr
    /\ \E t \in timers["primary"] : TRUE

\* C9: a message from another chat than the one bound to the loop that
\* fetched it changes nothing.
C9_OnlyBoundChat ==
    [][handled'.msg.chat # BoundChat(handled'.botType) => app' = app]_vars

\* C10: the chat history grows only on a message fetched by the primary
\* bot from the primary chat.
C10_ChatOnlyFromPrimary ==
    [][Len(app'.chatHistory) > Len(app.chatHistory) =>
          /\ handled'.botType = "primary"
          /\ handled'.msg.chat = MAIN_CHAT_ID]_vars

\* the auxiliary loop, bound to the primary chat, has handled a plain
\* message after the primary loop had added one to the history
C10_Witness ==
    /\ handled.script = "dual"
    /\ handled.botType = "auxiliary"
    /\ auxChatId = MAIN_CHAT_ID
    /\ handled.msg.chat = MAIN_CHAT_ID
    /\ handled.msg.text = <<"hola">>
    /\ Len(app.chatHistory) = 1

\* C11: no update processed by the auxiliary loop changes the in-memory
\* chat history or its stored copy.
C11_AuxNeverWritesHistory ==
    [][handled'.botType = "auxiliary" /\ handled'.script = "dual"
         /\ lastUpdateId'["auxiliary"] = lastUpdateId["auxiliary"] + 1
       => /\ app'.chatHistory = app.chatHistory
          /\ app'.storedChat = app.storedChat]_vars

\* C13: while an update of a fetched batch is still being processed (its
\* getFile is outstanding), the cursor of the channel has not been advanced
\* to that update or past it.
C13_CursorAfterBatch ==
    \A k \in BagToSet(chains) :
        k.phase = "file" => lastUpdateId[k.chan] < Head(k.batch)

\* the step is the loop body of the given script on an update of botType
HandledStep ==
    /\ lastUpdateId' # lastUpdateId
    /\ PassesFilter(handled'.script, handled'.botType, handled'.msg.chat)

\* C20: a message from an authorized chat whose text is a JSON object with
\* non-empty token and chatId leaves the configuration stored and the chat
\* history as it was.
C20_RemoteConfigStored ==
    [][HandledStep /\ RemoteConfigOf(handled'.msg.text) # None
       => /\ app'.remoteConfig = RemoteConfigOf(handled'.msg.text)
          /\ app'.chatHistory = app.chatHistory]_vars

\* C19: a message whose text starts with an asterisk and matches no command
\* grammar is dropped: the step changes nothing, the chat history least of
\* all.
C19_UnmatchedCommandDropped ==
    [][/\ HandledStep
       /\ StartsWith(TrimText(commandTextSource(handled'.msg)), <<STAR>>)
       /\ CommandKind(handled'.msg) = "rest"
       /\ productUpdateDataOf[handled'.msg] = None
       => app'.chatHistory = app.chatHistory /\ app' = app]_vars

\* the command texts of the model: every text that is one of the control
\* commands, the remote configuration included
IsControlText(t) ==
    LET m == Msg(MAIN_CHAT_ID, t, NoText, FALSE)
    IN \/ CommandKind(m) # "rest"
       \/ productUpdateDataOf[m] # None
       \/ RemoteConfigOf(t) # None

\* C12: from any state, a control command text processed by the auxiliary
\* loop from the auxiliary chat leaves the same state as the same text
\* processed by the primary loop from the primary chat.
C12_SameFromEitherChannel ==
    AuxConfigured =>
        \A t \in DispatchTexts : \A f \in BOOLEAN :
            IsControlText(t) =>
                ProcessMessage("dual", app, "auxiliary",
                               Msg(auxChatId, t, NoText, FALSE), f)
                = ProcessMessage("dual", app, "primary",
                                 Msg(MAIN_CHAT_ID, t, NoText, FALSE), f)

\* the grid shows ids 1..n in order and the store holds records for exactly
\* those ids
IsContiguous(a, n) ==
    /\ Len(a.grid) = n
    /\ \A i \in 1..n : a.grid[i].id = ToStr(i)
    /\ \A d \in DOMAIN NumVal : (a.store[d] # None) <=> (NumVal[d] \in 1..n)

\* the step is the loop body on the command that deletes product k
DeleteStep(k) ==
    /\ HandledStep
    /\ handled'.msg.text = CMD_DELETE \o <<k, STAR>>

C15_ContiguousAfterDelete ==
    /\ handled.script = "dual"
    /\ CommandKind(handled.msg) = "delete"
    /\ PassesFilter(handled.script, handled.botType, handled.msg.chat)
    /\ app.failing = {}
    => IsContiguous(app, Len(app.grid))

\* C16: a deletion with its renumbering loses no record but the deleted
\* one, even where storage writes fail: every other record stored before
\* the step is stored after it, under its old id or a new one.
C16_NoRecordLostOnRenumber ==
    [][\A k \in DOMAIN NumVal :
         DeleteStep(k)
         => \A d \in DOMAIN NumVal \ {k} :
               app.store[d] # None
               => \E e \in DOMAIN NumVal : app'.store[e] = app.store[d]]_vars

\* C17: in every state, an upsert (by either script) of a product whose
\* stored record has an image leaves a stored record with an image; when the upsert carries no
\* image (a text command, or a photo whose getFile failed) the image is the
\* one stored before.
C17_ImageRetained ==
    \A script \in {"dual", "single"} : \A m \in ProductMsgs : \A f \in BOOLEAN :
        productUpdateDataOf[m] # None =>
            LET d == productUpdateDataOf[m][1].id
                old == app.store[d]
                new == ProcessMessage(script, app, "primary", m, f).app.store[d]
            IN old # None /\ old[1].imageUrl # NoUrl
               => /\ new # None
                  /\ new[1].imageUrl # NoUrl
                  /\ ~(m.photo /\ f) => new[1].imageUrl = old[1].imageUrl

\* product 1, stored with an image at page load, has been updated by a text
\* command: the record has the new name and the old image
C17_Witness ==
    /\ handled.msg = Msg(MAIN_CHAT_ID,
                         <<STAR, "DULCES", STAR, "1", STAR, "Mani", STAR,
                           "Rico", STAR, "5 cup", STAR>>, NoText, FALSE)
    /\ lastUpdateId["primary"] = 1
    /\ app.store["1"] # None
    /\ app.store["1"][1].name = "Mani"
    /\ app.store["1"][1].imageUrl = InitProduct(1).imageUrl
    /\ InitProduct(1).imageUrl # NoUrl
    /\ app.grid[1].imageUrl = InitProduct(1).imageUrl

\* C18: from any chat history, appending an entry twice in succession
\* leaves the history, in memory and stored, with that entry once at its
\* end, whatever the type of the entry and with or without text and image.
C18_AppendTwiceStoresOnce ==
    \A text \in EntryTexts, type \in EntryTypes, timestamp \in EntryTimes,
       imageUrl \in EntryImages :
        LET entry == EntryOf(text, type, timestamp, imageUrl)
            h == app.chatHistory
            once == addMessageToChat(app, text, type, "Ana", timestamp,
                                     imageUrl)
            twice == addMessageToChat(once, text, type, "Ana", timestamp,
                                      imageUrl)
        IN /\ twice.chatHistory =
                 (IF h # << >> /\ h[Len(h)] = entry THEN h ELSE Append(h, entry))
           /\ twice.storedChat = Some(twice.chatHistory)

\* the segments that follow the *RULETA* prefix of a text, trimmed, the
\* empty ones left out
RouletteSegments(text) == NonEmpty(Split(Substring(text, Len(CMD_ROULETTE))))

RouletteValid(text) ==
    LET segs == RouletteSegments(text)
    IN /\ Len(segs) = 3
       /\ IsDigits(segs[1]) /\ IsDigits(segs[2])
       /\ NumVal[segs[2]] >= 0 /\ NumVal[segs[2]] <= 23

\* C21: a *RULETA* text with exactly three further non-empty segments, of
\* which attempts and hour are all digits and the hour is 0..23, shows the
\* roulette with those three values and changes nothing else; any other
\* *RULETA* text changes nothing.
C21_RouletteIffValid ==
    [][HandledStep /\ StartsWith(handled'.msg.text, CMD_ROULETTE)
       => LET segs == RouletteSegments(handled'.msg.text)
          IN IF RouletteValid(handled'.msg.text)
             THEN app' = [app EXCEPT !.roulette =
                             Some([attempts |-> segs[1],
                                   winHour |-> NumVal[segs[2]],
                                   code |-> segs[3]])]
             ELSE app' = app]_vars

\* the roulette of *RULETA*0*23*WIN123 is shown after a *RULETA* text with
\* hour 24 was processed
C21_Witness ==
    /\ handled.msg.text =
          <<STAR, "RULETA", STAR, "3", STAR, "24", STAR, "WIN123", STAR>>
    /\ lastUpdateId["primary"] = 2
    /\ app.roulette = Some([attempts |-> "0", winHour |-> 23,
                            code |-> "WIN123"])

\* C22: a dispatch that went through (the loop body ran on a message of an
\* authorized chat, did not throw and changed the state) wrote exactly one
\* system log entry.
C22_OneLogPerDispatch ==
    [][HandledStep /\ ~handled'.threw /\ app' # app
       => handled'.logs = 1]_vars

CommandFields(m) ==
    LET data == productUpdateDataOf[m][1]
    IN [name |-> data.name, description |-> data.description,
        priceCUP |-> data.priceCUP, priceMLC |-> data.priceMLC]

FieldsOf(r) ==
    [name |-> r.name, description |-> r.description,
     priceCUP |-> r.priceCUP, priceMLC |-> r.priceMLC]

\* C24: while both loops dispatch, every stored product record carries the
\* name, description and prices of one single product command of the feeds,
\* and the card shown with its id carries the same fields and image.
C24_NoTornRecord ==
    \A d \in DOMAIN app.store :
        app.store[d] # None =>
            /\ \E c \in Chan : \E i \in 1..Len(feed[c]) :
                  /\ productUpdateDataOf[feed[c][i]] # None
                  /\ FieldsOf(app.store[d][1]) = CommandFields(feed[c][i])
            /\ \E j \in 1..Len(app.grid) :
                  /\ app.grid[j].id = d
                  /\ FieldsOf(app.grid[j]) = FieldsOf(app.store[d][1])
                  /\ app.grid[j].imageUrl = app.store[d][1].imageUrl

\* the product commands of the two channels were both dispatched for the same
\* id while a getFile request of the other channel was outstanding, and the
\* record is the one of the auxiliary channel
C24_Witness ==
    /\ dispatched["primary"][1] > 0
    /\ dispatched["auxiliary"][1] > 0
    /\ \E k \in BagToSet(chains) : k.phase = "file"
    /\ app.store["1"] # None
    /\ app.store["1"][1].name = "Coco"

\* a step of the loop of channel c itself: its timer fires, or a request of
\* an invocation that the loop started (not pull-to-refresh) settles
LoopStep(c) ==
    \/ \E t \in timers[c] : TimerFire(c, t)
    \/ \E k \in ChainsOf(chains, c) :
          /\ ~k.ptr
          /\ \/ \E o \in Outcomes : FetchResponse(k, o)
             \/ \E ok \in BOOLEAN : Resume(k, ok)

\* cursor, poll state, pending timers, identity and outstanding requests of
\* channel c are left as they are
ChannelUnchanged(c) ==
    /\ lastUpdateId'[c] = lastUpdateId[c]
    /\ updateInterval'[c] = updateInterval[c]
    /\ timers'[c] = timers[c]
    /\ botInfo'[c] = botInfo[c]
    /\ idFailed'[c] = idFailed[c]
    /\ \A k \in ChainsOf(chains, c) \cup ChainsOf(chains', c) :
          CopiesIn(k, chains') = CopiesIn(k, chains)

\* C25: a step of one channel's loop (timer, fetch success, fetch failure,
\* backoff) leaves cursor, poll state, pending timers, identity and
\* outstanding requests of the other channel unchanged.
C25_LoopsIndependent ==
    [][\A c \in Chan : \A o \in Chan \ {c} :
          LoopStep(c) => ChannelUnchanged(o)]_vars

\* the fetch of the auxiliary loop has failed and its next timer is pending,
\* while the primary loop has dispatched an update and fetches again
C25_Witness ==
    /\ \E t \in timers["auxiliary"] : t.after = "fail"
    /\ dispatched["primary"][1] > 0
    /\ \E k \in ChainsOf(chains, "primary") : k.phase = "fetch" /\ k.offset > 1

\* the id a well-formed delete command names, None for any other text
DeleteIdOf(text) ==
    LET parts == NonEmpty(Split(text))
    IN IF /\ StartsWith(text, <<STAR, "ELIMINAR.PRODUCTO", STAR>>)
          /\ Len(parts) = 2 /\ IsDigits(parts[2])
       THEN Some(parts[2]) ELSE None

\* C26: a delete command with one all-digit segment from an authorized chat
\* applies deleteProduct for that id and raises nothing into the poll loop,
\* whichever script dispatches it.
C26_DeleteApplied ==
    [][HandledStep /\ DeleteIdOf(handled'.msg.text) # None
       => /\ ~handled'.threw
          /\ app' = deleteProduct(app, DeleteIdOf(handled'.msg.text)[1])]_vars

\* the segments that follow the keyword of a product command
DulcesSegments(text) ==
    IF StartsWith(text, <<STAR, "DULCES", STAR>>)
    THEN Tail(NonEmpty(Split(text)))
    ELSE << >>

\* the text has an all-digit id, a name, a description and a price segment
DulcesWellFormed(text) ==
    /\ Len(DulcesSegments(text)) >= 4
    /\ IsDigits(DulcesSegments(text)[1])

\* C27: a product command with an all-digit id, a name, a description and a
\* price segment stores the record with that name and description and the
\* prices of the last CUP and MLC tokens under that id; when the price
\* segment has neither token the message is no command and changes nothing.
C27_UpsertFromDulces ==
    [][HandledStep /\ DulcesWellFormed(commandTextSource(handled'.msg))
       => LET segs == DulcesSegments(commandTextSource(handled'.msg))
              price == PriceScan(segs[4])
          IN IF price.cup = None /\ price.mlc = None
             THEN app' = app
             ELSE /\ app'.store[segs[1]] # None
                  /\ FieldsOf(app'.store[segs[1]][1]) =
                        [name |-> segs[2], description |-> segs[3],
                         priceCUP |-> price.cup, priceMLC |-> price.mlc]]_vars

\* C28: every product id is a positive integer: no card is shown and no
\* record is stored under id 0.
C28_IdsPositive ==
    /\ \A i \in 1..Len(app.grid) : NumVal[app.grid[i].id] > 0
    /\ \A d \in DOMAIN app.store : app.store[d] # None => NumVal[d] > 0

\* the application state with the images of chat entries, cards and records
\* left out
WithoutImages(a) ==
    [a EXCEPT !.chatHistory =
                 [i \in 1..Len(@) |-> [@[i] EXCEPT !.imageUrl = NoUrl]],
              !.storedChat =
                 IF @ = None THEN None
                 ELSE Some([i \in 1..Len(@[1]) |->
                               [@[1][i] EXCEPT !.imageUrl = NoUrl]]),
              !.grid = [i \in 1..Len(@) |-> [@[i] EXCEPT !.imageUrl = NoUrl]],
              !.store = [d \in DOMAIN @ |->
                            IF @[d] = None THEN None
                            ELSE Some([@[d][1] EXCEPT !.imageUrl = NoUrl])]]

\* C29: a command string that arrives as the caption of a photo has the
\* effect, images apart, that the same string has when it arrives as text.
C29_CaptionAsText ==
    [][HandledStep /\ handled'.msg.photo /\ handled'.msg.caption # NoText
       => WithoutImages(app') =
          WithoutImages(
             ProcessMessage(handled'.script, app, handled'.botType,
                            Msg(handled'.msg.chat, handled'.msg.caption,
                                NoText, FALSE), FALSE).app)]_vars

\* C30: the cards of the grid are in strictly increasing id order, and each
\* shown id has the stored record of that id, with the fields the card shows.
C30_GridSortedAndStored ==
    /\ \A i \in 1..(Len(app.grid) - 1) :
          NumVal[app.grid[i].id] < NumVal[app.grid[i + 1].id]
    /\ \A i \in 1..Len(app.grid) :
          /\ app.store[app.grid[i].id] # None
          /\ FieldsOf(app.store[app.grid[i].id][1]) = FieldsOf(app.grid[i])

\* C31: a call of start on a channel that is active changes neither the
\* cursors, nor the outstanding requests, nor the pending timers, nor the
\* poll state of any channel.
C31_StartIdempotent ==
    [][\A c \in Chan :
          StartCall(c) => /\ lastUpdateId' = lastUpdateId
                          /\ chains' = chains
                          /\ timers' = timers
                          /\ meReqs' = meReqs
                          /\ updateInterval' = updateInterval]_vars

\* start was called on the primary channel while its loop had moved its
\* cursor and had a fetch outstanding or a timer pending
C31_Witness ==
    /\ handled.script = "start" /\ handled.botType = "primary"
    /\ lastUpdateId["primary"] > 0
    /\ \/ ChainsOf(chains, "primary") # {}
       \/ timers["primary"] # {}

\* C32: in every reachable state each channel has at most one pending poll
\* timer.
C32_OneTimerPerChannel ==
    \A c \in Chan : Cardinality(timers[c]) <= 1

\* the timer that is pending on the primary channel was armed by the finally
\* block of a failed fetch, in place of the retry timer of its catch block,
\* and a pull-to-refresh has intervened
C32_Witness ==
    /\ \E t \in timers["primary"] : t.after = "fail" /\ t.delay = POLL_DELAY
    /\ ptrCount > 0

\* C33: in every state the cart reaches through additions, removals,
\* decreases and emptying, the cart currency is null exactly when the cart
\* is empty, every item has a quantity above 0 and no two items share a
\* product id.
C33_CartInvariant ==
    /\ (app.cartCurrency = NoCurrency) <=> (app.cartItems = << >>)
    /\ \A i \in 1..Len(app.cartItems) : app.cartItems[i].quantity > 0
    /\ \A i, j \in 1..Len(app.cartItems) :
          app.cartItems[i].id = app.cartItems[j].id => i = j

\* two products are in the cart with MLC prices, product 2 first and with
\* two units
C33_Witness ==
    /\ Len(app.cartItems) = 2
    /\ app.cartItems[1].id = "2" /\ app.cartItems[1].quantity = 2
    /\ app.cartCurrency = "MLC"

\* the prices of all items are the prices of their products in one currency
SameCurrency(items) ==
    \E currency \in Currencies :
        \A i \in 1..Len(items) :
            items[i].price = PriceIn(items[i].id, currency)

\* C34: an addition to a cart that is not empty, made while the selected
\* currency differs from the cart currency, leaves the cart items, the cart
\* currency and the stored cart as they were, and so all items of the cart
\* carry prices of one currency.
C34_OneCurrencyInCart ==
    [][/\ \A productId \in CartProducts, quantity \in CartQuantities :
             (/\ AddToCart(productId, quantity)
              /\ app.cartItems # << >>
              /\ app.currentCurrency # app.cartCurrency)
             => /\ app'.cartItems = app.cartItems
                /\ app'.cartCurrency = app.cartCurrency
                /\ app'.cartStored = app.cartStored
       /\ SameCurrency(app'.cartItems)]_vars

\* the rejection alone: the addition in another currency than the cart
\* currency changes neither the cart nor its stored copy
RejectionLeavesCart ==
    [][\A productId \in CartProducts, quantity \in CartQuantities :
          (/\ AddToCart(productId, quantity)
           /\ app.cartItems # << >>
           /\ app.currentCurrency # app.cartCurrency)
          => /\ app'.cartItems = app.cartItems
             /\ app'.cartCurrency = app.cartCurrency
             /\ app'.cartStored = app.cartStored]_vars

\* the cart and its stored copy are left as they were
CartUnchanged ==
    /\ app'.cartItems = app.cartItems
    /\ app'.cartCurrency = app.cartCurrency
    /\ app'.cartStored = app.cartStored

\* the cart is empty and the checkout modal is closed
ClearedAndClosed ==
    /\ app'.cartItems = << >>
    /\ app'.cartStored = Some(<< >>)
    /\ ~app'.checkoutOpen

\* C35: a submission empties the cart and closes the checkout exactly when
\* its primary send succeeded, whatever its auxiliary send did; a failed
\* primary send leaves the cart and the modal as they were and enables the
\* submit button again; neither the validation nor a primary send that is
\* followed by the auxiliary send touches the cart or the modal.
C35_ClearedIffPrimarySent ==
    [][/\ \A i \in 1..MaxOrders :
             /\ PrimarySent(i, FALSE)
                => /\ CartUnchanged
                   /\ app'.checkoutOpen = app.checkoutOpen
                   /\ ~app'.submitDisabled /\ app'.errorShown
             /\ (PrimarySent(i, TRUE) /\ ~AuxConfigured) => ClearedAndClosed
             /\ (PrimarySent(i, TRUE) /\ AuxConfigured)
                => CartUnchanged /\ app'.checkoutOpen = app.checkoutOpen
             /\ \A ok \in BOOLEAN : AuxSent(i, ok) => ClearedAndClosed
       /\ \A nombre \in Nombres, movil \in Mobiles, fecha \in Days :
             Submit(nombre, movil, fecha)
             => CartUnchanged /\ app'.checkoutOpen = app.checkoutOpen]_vars

\* an order went out to the primary chat while its auxiliary send failed:
\* the cart is empty, its stored copy too, and the checkout is closed
C35_Witness ==
    /\ app.lastOrder # None
    /\ app.lastOrder[1].outcome = "sent"
    /\ app.lastOrder[1].aux = "failed"
    /\ app.cartItems = << >> /\ app.cartStored = Some(<< >>)
    /\ ~app.checkoutOpen

\* C36: a submission that passes validation raises the stored order count
\* of its mobile number by one at once, before its send, and leaves the
\* counts of other numbers; a rejected submission and the settling of a
\* send, failed or not, leave every count as it was.
C36_CountedOncePerOrder ==
    [][/\ \A nombre \in Nombres, movil \in Mobiles, fecha \in Days :
             Submit(nombre, movil, fecha)
             => IF app'.lastOrder[1].outcome = "sending"
                THEN \A m \in Mobiles :
                        loadCustomerOrderCount(app', m) =
                            loadCustomerOrderCount(app, m)
                            + (IF m = movil THEN 1 ELSE 0)
                ELSE app'.orderCount = app.orderCount
       /\ \A i \in 1..MaxOrders, ok \in BOOLEAN :
             (PrimarySent(i, ok) \/ AuxSent(i, ok))
             => app'.orderCount = app.orderCount]_vars

\* C39: a submission with valid name and mobile number is judged by the
\* customer's local clock in every time zone: for the local date of today
\* it passes only from 1:00 to 11:50 local time, for an earlier date it
\* never passes, and for a later local date it passes at any time.
C39_LocalDateWindow ==
    [][\A nombre \in Nombres, movil \in Mobiles, fecha \in Days :
          (Submit(nombre, movil, fecha) /\ nombre # "" /\ IsMobile(movil))
          => LET accepted == app'.lastOrder[1].outcome = "sending"
                 today == LocalDay(app.now, app.tz)
                 minuteOfDay == (app.now + app.tz) % MINUTES_PER_DAY
             IN /\ (fecha = today /\ accepted)
                   => minuteOfDay >= 60 /\ minuteOfDay <= 11 * 60 + 50
                /\ fecha < today => ~accepted
                /\ fecha > today => accepted]_vars

\* the stored copy of the chat history, empty when the key is missing
StoredHistory(a) == IF a.storedChat = None THEN << >> ELSE a.storedChat[1]

\* the last min(n, maxStoredMessages) entries of a history of length n
LastStored(history) ==
    IF Len(history) > maxStoredMessages
    THEN SubSeq(history, Len(history) - maxStoredMessages + 1, Len(history))
    ELSE history

\* C37: after every step the stored chat history holds at most 200 entries
\* and is the last min(n, 200) entries of the in-memory history of length
\* n, in their order; after a clearing both are empty.
C37_StoredIsLastEntries ==
    [][/\ Len(StoredHistory(app')) <= maxStoredMessages
       /\ StoredHistory(app') = LastStored(app'.chatHistory)
       /\ ClearChat => app'.chatHistory = << >> /\ StoredHistory(app') = << >>
      ]_vars

\* C38: a click on the button while attempts remain starts one game and
\* takes one attempt, so that the games started from a button and the
\* attempts it has left always add up to the attempts it was offered with;
\* no other step starts a game; a button that can be clicked has attempts
\* left; an offer leaves its button as the only one.
C38_RouletteAttempts ==
    [][/\ IF RouletteClick /\ NumVal[app.roulette[1].attempts] > 0
          THEN /\ app'.games = app.games + 1
               /\ NumVal[app'.roulette[1].attempts] =
                      NumVal[app.roulette[1].attempts] - 1
          ELSE app'.games = app.games
       /\ (app'.roulette # << >> /\ ~app'.rouletteDisabled)
          => NumVal[app'.roulette[1].attempts] > 0
       /\ Len(app'.roulette) <= 1]_vars

====
